---- MODULE Spec2Model ----
(***************************************************************************)
(* Master Actions retrieval core of HR_BOT_V1                              *)
(* (src/src/hr_bot/tools/master_actions_tool.py): MasterActionsRetriever,  *)
(* its persisted index, its query cache, and MasterActionsTool._run; and   *)
(* the admin console (src/src/hr_bot/ui/admin): the authorisation of       *)
(* auth.py and the route handlers of routes.py.                            *)
(*                                                                         *)
(* Strings are TLC strings.  Where the code looks inside a string (lower,  *)
(* strip, substring test, \b\w+\b tokens) the operators work on the        *)
(* string's characters, given by Chars for the strings of the model.       *)
(* Scores are kept as integers: a score s of the code is ScoreScale * s.   *)
(* Time is counted in hours.                                               *)
(***************************************************************************)
EXTENDS Integers, Sequences, FiniteSets, TLC

None == "None"

(* ------------------------------ bounds --------------------------------- *)
\* The clock stops at MaxNow hours.
MaxNow == 25
\* One-hour ticks are taken only in the first MaxSmallTicks hours of a day.
MaxSmallTicks == 1
\* A file is rewritten at most up to this version.
MaxDocVersion == 2
\* Entries the query cache holds at most.
MaxCacheEntries == 1

(* ------------------------------ strings -------------------------------- *)
Chars ==
    "" :> <<>> @@
    "ada@hr.io" :> <<"a", "d", "a", "@", "h", "r", ".", "i", "o">> @@
    " Ada@hr.io " :> <<" ", "A", "d", "a", "@", "h", "r", ".", "i", "o", " ">> @@
    "tom@hr.io" :> <<"t", "o", "m", "@", "h", "r", ".", "i", "o">> @@
    "Payslip" :> <<"P", "a", "y", "s", "l", "i", "p">> @@
    "the tds" :> <<"t", "h", "e", " ", "t", "d", "s">> @@
    " Apply Leave " :> <<" ", "A", "p", "p", "l", "y", " ", "L", "e", "a", "v", "e", " ">> @@
    "Form-16" :> <<"F", "o", "r", "m", "-", "1", "6">> @@
    "how to download payslip steps" :> <<"h", "o", "w", " ", "t", "o", " ", "d", "o", "w", "n", "l", "o", "a", "d", " ", "p", "a", "y", "s", "l", "i", "p", " ", "s", "t", "e", "p", "s">> @@
    "payslip download steps step by step" :> <<"p", "a", "y", "s", "l", "i", "p", " ", "d", "o", "w", "n", "l", "o", "a", "d", " ", "s", "t", "e", "p", "s", " ", "s", "t", "e", "p", " ", "b", "y", " ", "s", "t", "e", "p">> @@
    "tds:1" :> <<"t", "d", "s", ":", "1">> @@
    "Steps: download payslip" :> <<"S", "t", "e", "p", "s", ":", " ", "d", "o", "w", "n", "l", "o", "a", "d", " ", "p", "a", "y", "s", "l", "i", "p">> @@
    "Holiday list" :> <<"H", "o", "l", "i", "d", "a", "y", " ", "l", "i", "s", "t">> @@
    "Payslip and TDS" :> <<"P", "a", "y", "s", "l", "i", "p", " ", "a", "n", "d", " ", "T", "D", "S">> @@
    "tds" :> <<"t", "d", "s">> @@
    "apply" :> <<"a", "p", "p", "l", "y">> @@
    "download" :> <<"d", "o", "w", "n", "l", "o", "a", "d">> @@
    "leave" :> <<"l", "e", "a", "v", "e">> @@
    "payslip" :> <<"p", "a", "y", "s", "l", "i", "p">> @@
    "profile" :> <<"p", "r", "o", "f", "i", "l", "e">> @@
    "training" :> <<"t", "r", "a", "i", "n", "i", "n", "g">> @@
    "expense" :> <<"e", "x", "p", "e", "n", "s", "e">> @@
    "attendance" :> <<"a", "t", "t", "e", "n", "d", "a", "n", "c", "e">> @@
    "holiday" :> <<"h", "o", "l", "i", "d", "a", "y">> @@
    "form-16" :> <<"f", "o", "r", "m", "-", "1", "6">> @@
    "balance" :> <<"b", "a", "l", "a", "n", "c", "e">> @@
    "link:" :> <<"l", "i", "n", "k", ":">> @@
    "steps:" :> <<"s", "t", "e", "p", "s", ":">> @@
    "step 1" :> <<"s", "t", "e", "p", " ", "1">> @@
    "step 2" :> <<"s", "t", "e", "p", " ", "2">> @@
    "click" :> <<"c", "l", "i", "c", "k">> @@
    "navigate" :> <<"n", "a", "v", "i", "g", "a", "t", "e">> @@
    "select" :> <<"s", "e", "l", "e", "c", "t">> @@
    "action name:" :> <<"a", "c", "t", "i", "o", "n", " ", "n", "a", "m", "e", ":">> @@
    "Knowledge Guide.docx" :> <<"K", "n", "o", "w", "l", "e", "d", "g", "e", " ", "G", "u", "i", "d", "e", ".", "d", "o", "c", "x">> @@
    "policy.docx" :> <<"p", "o", "l", "i", "c", "y", ".", "d", "o", "c", "x">> @@
    "master.docx" :> <<"m", "a", "s", "t", "e", "r", ".", "d", "o", "c", "x">> @@
    "knowledge" :> <<"k", "n", "o", "w", "l", "e", "d", "g", "e">> @@
    "action" :> <<"a", "c", "t", "i", "o", "n">> @@
    "master" :> <<"m", "a", "s", "t", "e", "r">> @@
    "guide" :> <<"g", "u", "i", "d", "e">> @@
    "a" :> <<"a">> @@
    "an" :> <<"a", "n">> @@
    "the" :> <<"t", "h", "e">> @@
    "is" :> <<"i", "s">> @@
    "are" :> <<"a", "r", "e">> @@
    "to" :> <<"t", "o">> @@
    "for" :> <<"f", "o", "r">> @@
    "of" :> <<"o", "f">> @@
    "in" :> <<"i", "n">> @@
    "on" :> <<"o", "n">> @@
    "how" :> <<"h", "o", "w">> @@
    "what" :> <<"w", "h", "a", "t">> @@
    "i" :> <<"i">> @@
    "my" :> <<"m", "y">> @@
    "can" :> <<"c", "a", "n">>

LowerChar(c) ==
    CASE c = "P" -> "p" [] c = "S" -> "s" [] c = "H" -> "h"
      [] c = "T" -> "t" [] c = "D" -> "d" [] c = "K" -> "k"
      [] c = "G" -> "g" [] c = "A" -> "a" [] c = "L" -> "l"
      [] c = "F" -> "f" [] OTHER -> c

\* str.lower()
Lower(cs) == [i \in DOMAIN cs |-> LowerChar(cs[i])]

RECURSIVE LStrip(_)
LStrip(cs) == IF cs # <<>> /\ Head(cs) = " " THEN LStrip(Tail(cs)) ELSE cs

RECURSIVE RStrip(_)
RStrip(cs) ==
    IF cs # <<>> /\ cs[Len(cs)] = " " THEN RStrip(SubSeq(cs, 1, Len(cs) - 1)) ELSE cs

\* str.strip()
Strip(cs) == RStrip(LStrip(cs))

\* needle in hay
Contains(needle, hay) ==
    \E i \in 1..(Len(hay) - Len(needle) + 1) :
        SubSeq(hay, i, i + Len(needle) - 1) = needle

\* the characters \w matches, among those of the model's strings
IsWordChar(c) == c \notin {" ", ":", "-", "."}

\* re.findall(r'\b\w+\b', s): the maximal runs of word characters
Tokens(cs) ==
    { SubSeq(cs, i, j) : <<i, j>> \in
        { p \in (1..Len(cs)) \X (1..Len(cs)) :
            /\ p[1] <= p[2]
            /\ \A k \in p[1]..p[2] : IsWordChar(cs[k])
            /\ (p[1] = 1 \/ ~IsWordChar(cs[p[1] - 1]))
            /\ (p[2] = Len(cs) \/ ~IsWordChar(cs[p[2] + 1])) } }

\* ' '.join(seq)
RECURSIVE Join(_)
Join(ss) ==
    IF ss = <<>> THEN ""
    ELSE IF Len(ss) = 1 THEN ss[1]
    ELSE ss[1] \o " " \o Join(Tail(ss))

\* the string of the characters cs
RECURSIVE FromChars(_)
FromChars(cs) == IF cs = << >> THEN "" ELSE Head(cs) \o FromChars(Tail(cs))

\* str(x) of a float holding a whole number
str_float(n) == ToString(n) \o ".0"

(* ---------------------------- file system ------------------------------ *)
\* The document files.  A path is an index of PathName; the indices are in
\* the lexicographic order of the names, the order sorted() uses.
PathName == << "cache/Knowledge Guide.docx", "cache/policy.docx",
               "data/Master-Document/master.docx" >>
FileName == << "Knowledge Guide.docx", "policy.docx", "master.docx" >>
PathDir == << "cache", "cache", "data/Master-Document" >>
PathIds == DOMAIN PathName
LOCAL_MASTER == "data/Master-Document"
CACHE_DIR == "cache"

\* any(kw in name.lower() for kw in ['knowledge', 'action', 'master', 'guide']),
\* computed once for the files of the model
MasterKeywords == { "knowledge", "action", "master", "guide" }
HasMasterKeyword ==
    [ p \in PathIds |->
        \E kw \in MasterKeywords : Contains(Chars[kw], Lower(Chars[FileName[p]])) ]

\* files[p] = 0: no such file; v > 0: the file holds its v-th version, and
\* its modification time is that of the v-th write.
FileExists(fs, p) == fs[p] # 0
st_mtime(fs, p) == fs[p]

\* The versions a file of the model takes.
MaxVersionOf(p) == IF p = 1 THEN MaxDocVersion ELSE 1

(* ----------------------------- documents ------------------------------- *)
\* What Docx2txtLoader and the text splitter make of version v of the
\* document at path p: the chunk texts, in order.  The document of the local
\* data directory has no text and yields no chunks.
ChunkTexts(p, v) ==
    CASE PathDir[p] = LOCAL_MASTER -> << >>
      [] v % 2 = 1 -> << "Steps: download payslip", "Holiday list" >>
      [] OTHER -> << "Payslip and TDS" >>

\* a numbering of the chunks that starts at 1
_chunk_documents_from_one(p, v) ==
    [ i \in DOMAIN ChunkTexts(p, v) |->
        [ page_content |-> ChunkTexts(p, v)[i],
          source |-> FileName[p],
          chunk_id |-> i ] ]

\* _chunk_documents: the splitter's chunks, each given its position as chunk_id
_chunk_documents(p, v) ==
    [ i \in DOMAIN ChunkTexts(p, v) |->
        [ page_content |-> ChunkTexts(p, v)[i],
          source |-> FileName[p],
          chunk_id |-> i - 1 ] ]

(* ----------------------------- retriever ------------------------------- *)
\* Python's truth of an optional string and of an optional list
TruthyStr(x) == x # None /\ x # ""
TruthySeq(x) == x # << >>

\* An optional object is the empty sequence (None) or << the object >>.
Null == << >>
Some(x) == << x >>
Val(x) == x[1]

RECURSIVE Insert(_, _)
Insert(x, s) ==
    IF s = << >> THEN << x >>
    ELSE IF x <= Head(s) THEN << x >> \o s
    ELSE << Head(s) >> \o Insert(x, Tail(s))

\* sorted(document_paths)
RECURSIVE sorted(_)
sorted(s) == IF s = << >> THEN << >> ELSE Insert(Head(s), sorted(Tail(s)))

\* hashlib.md5: the digest of the bytes fed to the hasher, taken to be free
\* of collisions on the inputs of the model
md5_hexdigest(bytes) == "md5(" \o bytes \o ")"

\* the loop of _compute_version_hash over the sorted document paths
RECURSIVE PathsBytes(_, _)
PathsBytes(ps, fs) ==
    IF ps = << >> THEN ""
    ELSE PathName[Head(ps)]
           \o (IF FileExists(fs, Head(ps)) THEN str_float(st_mtime(fs, Head(ps))) ELSE "")
           \o PathsBytes(Tail(ps), fs)

\* the unsorted loop: what the hash would be without sorted()
UnsortedCorpusBytes(r, fs) ==
    IF TruthyStr(r.s3_version_hash) THEN r.s3_version_hash
    ELSE IF TruthySeq(r.document_paths) THEN PathsBytes(r.document_paths, fs)
    ELSE ""

CorpusBytes(r, fs) ==
    IF TruthyStr(r.s3_version_hash) THEN r.s3_version_hash
    ELSE IF TruthySeq(r.document_paths) THEN PathsBytes(sorted(r.document_paths), fs)
    ELSE ""

ConfigBytes(r) ==
    "chunk:" \o ToString(r.chunk_size) \o "|overlap:" \o ToString(r.chunk_overlap)

_compute_version_hash(r, fs) ==
    md5_hexdigest(CorpusBytes(r, fs) \o ConfigBytes(r) \o "master_actions_v2")

\* _find_master_document: 0 when none is found
_find_master_document(r, fs) ==
    LET inPaths == IF TruthySeq(r.document_paths)
                   THEN { i \in DOMAIN r.document_paths :
                            /\ FileExists(fs, r.document_paths[i])
                            /\ HasMasterKeyword[r.document_paths[i]] }
                   ELSE {}
        inCache == IF TruthyStr(r.cache_dir)
                   THEN { p \in PathIds : /\ PathDir[p] = r.cache_dir
                                          /\ FileExists(fs, p)
                                          /\ HasMasterKeyword[p] }
                   ELSE {}
        inLocal == { p \in PathIds : /\ PathDir[p] = LOCAL_MASTER
                                     /\ FileExists(fs, p)
                                     /\ HasMasterKeyword[p] }
        First(S) == CHOOSE x \in S : \A y \in S : x <= y
    IN  IF inPaths # {} THEN r.document_paths[First(inPaths)]
        ELSE IF inCache # {} THEN First(inCache)
        ELSE IF inLocal # {} THEN First(inLocal)
        ELSE 0

\* The frame of a build_index call: where it is (pc), its argument, the step
\* that fails in it (fault), its locals (current_hash, the unpickled data,
\* the chunks, the master document found), and what it did: the reason
\* _load_index returned False or "loaded" (verdict), how it ended (outcome),
\* whether it began on a retriever as constructed (was_fresh) and whether it
\* wrote to the index directory (wrote).
NoFrame ==
    [ pc |-> "idle", force |-> FALSE, fault |-> "none", current_hash |-> None,
      data |-> Null, chunks |-> << >>, master |-> << 0, 0 >>,
      verdict |-> "na", outcome |-> "na", was_fresh |-> FALSE, wrote |-> FALSE ]

\* The fields __init__ sets.  vector_store and bm25 are None or hold the
\* chunks they index and name the build they come from: the document (path,
\* version) and the fingerprint they were built for.  The weights are in
\* tenths.
__init__(args, overlap) ==
    [ vector_store |-> Null, bm25 |-> Null, bm25_retriever |-> Null,
      faiss_retriever |-> Null, ensemble_retriever |-> Null,
      documents |-> << >>, index_hash |-> None,
      cache_dir |-> args.cache_dir, document_paths |-> args.document_paths,
      s3_version_hash |-> args.s3_version_hash,
      chunk_size |-> 600, chunk_overlap |-> overlap, top_k |-> 5,
      bm25_weight |-> 6, vector_weight |-> 4,
      frame |-> NoFrame ]

\* the IndexBundle of a retriever: what a rebuild replaces
Bundle(r) ==
    [ vector_store |-> r.vector_store, bm25 |-> r.bm25,
      bm25_retriever |-> r.bm25_retriever, faiss_retriever |-> r.faiss_retriever,
      ensemble_retriever |-> r.ensemble_retriever,
      documents |-> r.documents, index_hash |-> r.index_hash ]

\* search's first test: the retriever serves queries
Ready(r) ==
    r.vector_store # Null /\ r.ensemble_retriever # Null /\ r.documents # << >>

\* _build_retrievers
_build_retrievers(r) ==
    IF r.documents = << >> THEN r
    ELSE LET base_k == IF r.top_k > 5 THEN r.top_k ELSE 5
             faiss == [ of |-> Val(r.vector_store).docs, k |-> base_k * 2 ]
             sparse == [ of |-> r.documents, k |-> base_k * 2 ]
         IN [ r EXCEPT !.faiss_retriever = Some(faiss),
                       !.bm25_retriever = Some(sparse),
                       !.ensemble_retriever =
                           Some([ retrievers |-> << sparse, faiss >>,
                                  weights |-> << r.bm25_weight, r.vector_weight >> ]) ]

(* --------------------------- persisted index --------------------------- *)
\* The index directory: the dense-index artifact (master_faiss_index) and
\* the pickle file (master_bm25_index.pkl) holding the sparse index, the
\* chunk list and the fingerprint.  A file cut short by a failed or running
\* write is partial: unpickling it raises.
TTL_HOURS == 24

PartialPickle(t) ==
    [ bm25 |-> Null, documents |-> << >>, index_hash |-> None,
      mtime |-> t, partial |-> TRUE ]

\* the frame of a build_index call that has returned
Return(r, outcome) ==
    [ r EXCEPT !.frame.pc = "done", !.frame.outcome = outcome ]

\* _load_index returned False, for the reason given: build_index goes on to
\* rebuild
LoadFailed(r, reason) ==
    [ r EXCEPT !.frame.pc = "load_doc", !.frame.verdict = reason ]

\* an age test that takes the age in days for an age in hours
ExpiredInDays(t, mtime) == (t - mtime) \div 24 > TTL_HOURS

\* an age test that turns an index down from the 24th hour on
ExpiredFromTTL(t, mtime) == t - mtime >= TTL_HOURS

\* the age test of _load_index, in hours
Expired(t, mtime) == t - mtime > TTL_HOURS

\* a fingerprint test that only asks for a stored fingerprint
StoredHashPresent(stored, current_hash) == stored = None

\* the fingerprint test of _load_index
HashMismatch(stored, current_hash) == stored # current_hash

\* a test of the chunk list that lets an empty list through
NoChunksUnchecked(chunks) == FALSE

\* build_index's test of the chunk list: no chunks, nothing to index
NoChunks(chunks) == chunks = << >>

\* a copy of the chunks that keeps their text and drops their metadata
clean_docs_text_only(documents) ==
    [ i \in DOMAIN documents |->
        [ page_content |-> documents[i].page_content,
          source |-> "", chunk_id |-> 0 - 1 ] ]

\* clean_docs of _save_index: for each chunk a new Document with its
\* page_content and a copy of its metadata
clean_docs(documents) ==
    [ i \in DOMAIN documents |->
        [ page_content |-> documents[i].page_content,
          source |-> documents[i].source, chunk_id |-> documents[i].chunk_id ] ]

\* a save whose failure leaves build_index as an exception
SaveFailedRaises(r) == Return(r, "raised")

\* _save_index's handler: the failure of a write is printed, _save_index
\* returns, and build_index returns after it
SaveFailed(r) == Return(r, "rebuilt")

\* One step of build_index (with _load_index, _load_master_document,
\* _build_retrievers and _save_index inlined) by retriever r on disk d, with
\* the files fs and the clock t.  A step is what runs between two places
\* where another thread or process can see or change the shared state.
build_step(r, d, fs, t) ==
    LET f == r.frame
        pc == f.pc
    IN
    CASE pc = "rm_vector" ->
           [ r |-> [ r EXCEPT !.frame.pc = "rm_bm25" ],
             d |-> [ d EXCEPT !.vector = Null ] ]
      [] pc = "rm_bm25" ->
           [ r |-> [ r EXCEPT !.frame.pc = "load_doc" ],
             d |-> [ d EXCEPT !.pkl = Null ] ]
      [] pc = "load_exists" ->
           [ r |-> IF d.vector = Null \/ d.pkl = Null
                   THEN LoadFailed(r, "missing")
                   ELSE [ r EXCEPT !.frame.pc = "load_ttl" ],
             d |-> d ]
      [] pc = "load_ttl" ->
           [ r |-> IF d.pkl = Null THEN LoadFailed(r, "error")
                   ELSE IF Expired(t, Val(d.pkl).mtime) THEN LoadFailed(r, "expired")
                   ELSE [ r EXCEPT !.frame.pc = "load_pickle" ],
             d |-> d ]
      [] pc = "load_pickle" ->
           [ r |-> IF d.pkl = Null \/ f.fault = "load_pickle" THEN LoadFailed(r, "error")
                   ELSE IF Val(d.pkl).partial THEN LoadFailed(r, "error")
                   ELSE IF HashMismatch(Val(d.pkl).index_hash, f.current_hash)
                        THEN LoadFailed(r, "mismatch")
                   ELSE [ r EXCEPT !.frame.pc = "load_faiss",
                                   !.frame.data = d.pkl ],
             d |-> d ]
      [] pc = "load_faiss" ->
           [ r |-> IF d.vector = Null \/ f.fault = "load_faiss" THEN LoadFailed(r, "error")
                   ELSE [ r EXCEPT !.frame.pc = "load_assign",
                                   !.vector_store = d.vector ],
             d |-> d ]
      [] pc = "load_assign" ->
           [ r |-> [ r EXCEPT !.frame.pc = "load_retrievers",
                              !.bm25 = Val(f.data).bm25,
                              !.documents = Val(f.data).documents,
                              !.index_hash = Val(f.data).index_hash ],
             d |-> d ]
      [] pc = "load_retrievers" ->
           [ r |-> Return([ _build_retrievers(r) EXCEPT !.frame.verdict = "loaded" ],
                          "loaded"),
             d |-> d ]
      [] pc = "load_doc" ->
           LET p == _find_master_document(r, fs)
           IN [ r |-> IF p = 0 \/ f.fault = "loader" THEN Return(r, "no_document")
                      ELSE [ r EXCEPT !.frame.pc = "set_documents",
                                      !.frame.master = << p, fs[p] >>,
                                      !.frame.chunks = _chunk_documents(p, fs[p]) ],
                d |-> d ]
      [] pc = "set_documents" ->
           [ r |-> IF NoChunks(f.chunks)
                   THEN Return([ r EXCEPT !.documents = f.chunks ], "no_chunks")
                   ELSE [ r EXCEPT !.documents = f.chunks,
                                   !.frame.pc = "build_faiss" ],
             d |-> d ]
      [] pc = "build_faiss" ->
           [ r |-> IF f.fault = "embed" THEN Return(r, "raised")
                   ELSE [ r EXCEPT !.frame.pc = "build_bm25",
                                   !.vector_store =
                                       Some([ docs |-> r.documents, master |-> f.master,
                                              built_for |-> f.current_hash ]) ],
             d |-> d ]
      [] pc = "build_bm25" ->
           [ r |-> [ r EXCEPT !.frame.pc = "build_retrievers",
                              !.bm25 = Some([ docs |-> r.documents, master |-> f.master,
                                              built_for |-> f.current_hash ]) ],
             d |-> d ]
      [] pc = "build_retrievers" ->
           [ r |-> [ _build_retrievers(r) EXCEPT !.frame.pc = "set_hash" ],
             d |-> d ]
      [] pc = "set_hash" ->
           [ r |-> [ r EXCEPT !.frame.pc = "save_faiss",
                              !.index_hash = f.current_hash ],
             d |-> d ]
      [] pc = "save_faiss" ->
           IF f.fault = "save_faiss"
           THEN [ r |-> SaveFailed(r), d |-> d ]
           ELSE [ r |-> [ r EXCEPT !.frame.pc = "save_bm25", !.frame.wrote = TRUE ],
                  d |-> [ d EXCEPT !.vector = r.vector_store ] ]
      [] pc = "save_bm25" ->
           [ r |-> IF f.fault \in { "save_open", "save_dump" }
                   THEN SaveFailed([ r EXCEPT !.frame.wrote =
                                                  f.wrote \/ f.fault # "save_open" ])
                   ELSE Return([ r EXCEPT !.frame.wrote = TRUE ], "rebuilt"),
             d |-> IF f.fault = "save_open" THEN d
                   ELSE IF f.fault = "save_dump"
                        THEN [ d EXCEPT !.pkl = Some(PartialPickle(t)) ]
                   ELSE [ d EXCEPT !.pkl =
                            Some([ bm25 |-> r.bm25, documents |-> clean_docs(r.documents),
                                   index_hash |-> r.index_hash,
                                   mtime |-> t, partial |-> FALSE ]) ] ]
      [] OTHER -> [ r |-> r, d |-> d ]

\* the call build_index(force_rebuild = force): the frame at its first step
build_call(r, force, fault, fs) ==
    [ r EXCEPT !.frame =
        [ NoFrame EXCEPT !.pc = IF force THEN "rm_vector" ELSE "load_exists",
                         !.force = force, !.fault = fault,
                         !.was_fresh = (Bundle(r) = Bundle(__init__(r, r.chunk_overlap))),
                         !.current_hash = _compute_version_hash(r, fs) ] ]

\* build_index run from the call to its return with nothing in between
RECURSIVE run_build(_, _, _, _)
run_build(r, d, fs, t) ==
    IF r.frame.pc = "done" THEN [ r |-> r, d |-> d ]
    ELSE LET w == build_step(r, d, fs, t) IN run_build(w.r, w.d, fs, t)

build_index(r, d, force, fault, fs, t) ==
    run_build(build_call(r, force, fault, fs), d, fs, t)

\* _load_index alone, as build_index calls it: the retriever when it returns
\* (frame.verdict = "loaded" when it returns True)
RECURSIVE run_load(_, _, _, _)
run_load(r, d, fs, t) ==
    IF r.frame.pc \in { "load_doc", "done" } THEN r
    ELSE run_load(build_step(r, d, fs, t).r, d, fs, t)

_load_index(r, d, fault, fs, t) ==
    run_load(build_call(r, FALSE, fault, fs), d, fs, t)

(* ------------------------------- search -------------------------------- *)
\* the queries, the string hash seeds and the chunk texts of the model
Queries == { "Payslip", "the tds" }
\* the queries _expand_query is applied to: those, one with two keywords
\* between spaces, and one with a keyword in capitals
ExpandQueries == Queries \cup { " Apply Leave ", "Form-16" }
\* the queries whose results are ranked closely: one whose words give the
\* second candidate the score of the first, one whose words give it more
RankQueries == { "how to download payslip steps", "payslip download steps step by step" }
\* a query and the same query followed by a colon and a digit
ColonQueries == { "tds", "tds:1" }
SearchQueries == ExpandQueries \cup RankQueries \cup ColonQueries
HashSeeds == { 0, 1 }
Contents ==
    UNION { { ChunkTexts(p, v)[i] : i \in DOMAIN ChunkTexts(p, v) } :
              p \in PathIds, v \in 1 .. MaxDocVersion }

\* action_expansions of _expand_query, in the order of the dict
ActionExpansions ==
    << << "apply", << "request", "submit", "file" >> >>,
       << "download", << "get", "access", "view", "fetch" >> >>,
       << "leave", << "vacation", "time off", "absence", "pto" >> >>,
       << "payslip", << "salary slip", "pay stub", "salary statement" >> >>,
       << "profile", << "personal details", "employee info", "my details" >> >>,
       << "training", << "learning", "course", "certification", "skill" >> >>,
       << "expense", << "reimbursement", "claim", "travel claim" >> >>,
       << "attendance", << "punch", "check in", "clock" >> >>,
       << "holiday", << "calendar", "public holiday", "company holiday" >> >>,
       << "form-16", << "tax form", "income tax", "tds" >> >>,
       << "balance", << "remaining", "available", "quota" >> >> >>

RECURSIVE Dedupe(_)
Dedupe(s) ==
    IF s = << >> THEN << >>
    ELSE LET rest == Dedupe(SubSeq(s, 1, Len(s) - 1))
             x == s[Len(s)]
         IN IF \E i \in DOMAIN rest : rest[i] = x THEN rest ELSE Append(rest, x)

Reverse(s) == [ i \in DOMAIN s |-> s[Len(s) + 1 - i] ]

\* The order in which a process iterates a set of strings: it depends on the
\* process's string hash seed, and is one of two orders here.
SetOrder(seed, s) == IF seed = 0 THEN Dedupe(s) ELSE Reverse(Dedupe(s))

RECURSIVE Expansions(_, _)
Expansions(q, i) ==
    IF i > Len(ActionExpansions) THEN << >>
    ELSE (IF Contains(Chars[ActionExpansions[i][1]], q)
          THEN ActionExpansions[i][2] ELSE << >>) \o Expansions(q, i + 1)

\* an expansion that puts the synonyms in the place of the query
ExpandQueryReplacing(query, seed) ==
    LET q == Lower(Strip(Chars[query]))
        expansions == Expansions(q, 1)
    IN IF expansions # << >>
       THEN Join(SetOrder(seed, expansions))
       ELSE query

\* _expand_query, computed for a query and a seed
ExpandQuery(query, seed) ==
    LET q == Lower(Strip(Chars[query]))
        expansions == Expansions(q, 1)
    IN IF expansions # << >>
       THEN query \o " " \o Join(SetOrder(seed, expansions))
       ELSE query

\* _expand_query on the queries of the model, computed once
Expanded ==
    [ query \in SearchQueries |-> [ seed \in HashSeeds |-> ExpandQuery(query, seed) ] ]

_expand_query(query, seed) == Expanded[query][seed]

StopWords ==
    { Chars[w] : w \in { "a", "an", "the", "is", "are", "to", "for", "of",
                         "in", "on", "how", "what", "i", "my", "can" } }

ActionMarkers ==
    { Chars[m] : m \in { "link:", "steps:", "step 1", "step 2", "click",
                         "navigate", "select", "action name:" } }

\* A score s of the code is the integer ScoreScale * s; 1 / (rank + 1) is
\* whole for the ranks the model reaches.
ScoreScale == 60
KeywordBoost == 6
ActionBoost == 12

\* a boost for the query tokens only, whatever markers the text holds
BoostWithoutMarkers(query, content) ==
    LET query_tokens == Tokens(Lower(Chars[query])) \ StopWords
        content_lower == Lower(Chars[content])
    IN KeywordBoost
         * Cardinality({ tok \in query_tokens : Contains(tok, content_lower) })

\* the keyword boost and the action boost search gives a document
Boost(query, content) ==
    LET query_tokens == Tokens(Lower(Chars[query])) \ StopWords
        content_lower == Lower(Chars[content])
        keyword_hits == Cardinality({ tok \in query_tokens : Contains(tok, content_lower) })
        action_boost == IF \E m \in ActionMarkers : Contains(m, content_lower)
                        THEN ActionBoost ELSE 0
    IN KeywordBoost * keyword_hits + action_boost

\* the boosts on the queries and chunk texts of the model, computed once
Boosts ==
    [ query \in SearchQueries |-> [ content \in Contents |-> Boost(query, content) ] ]

\* the score search gives the document at position rank (from 0)
Score(query, content, rank) == (ScoreScale \div (rank + 1)) + Boosts[query][content]

\* results.sort(key=score, reverse=True): stable, equal scores keep their order
RECURSIVE InsertByScore(_, _)
InsertByScore(x, s) ==
    IF s = << >> THEN << x >>
    ELSE IF Head(s).score >= x.score THEN << Head(s) >> \o InsertByScore(x, Tail(s))
    ELSE << x >> \o s

RECURSIVE SortByScore(_)
SortByScore(s) ==
    IF s = << >> THEN << >>
    ELSE InsertByScore(s[Len(s)], SortByScore(SubSeq(s, 1, Len(s) - 1)))

\* a slice that keeps the whole list
TakeAll(s, k) == s

\* results[:top_k]
Take(s, k) == SubSeq(s, 1, IF Len(s) < k THEN Len(s) ELSE k)

\* EnsembleRetriever.invoke: the chunks of the sparse and of the dense
\* retriever, without repeats.  Their order is the libraries' ranking; the
\* model takes it to be one of two fixed orders (ranking).
EnsembleInvoke(ens, ranking) ==
    LET merged == Dedupe(ens.retrievers[1].of \o ens.retrievers[2].of)
    IN IF ranking = "fwd" THEN merged ELSE Reverse(merged)

CACHE_EXPIRE_HOURS == 1

\* a cache whose get returns what is stored, however old
CacheGetStale(cache, key, t) ==
    IF key \in DOMAIN cache THEN cache[key].value ELSE << >>

\* a cache whose get never finds anything
CacheGetNothing(cache, key, t) == << >>

\* diskcache Cache.get: the value stored under key unless it has expired
CacheGet(cache, key, t) ==
    IF key \in DOMAIN cache /\ cache[key].expire_time > t
    THEN cache[key].value ELSE << >>

\* diskcache Cache.set(key, value, expire)
CacheSet(cache, key, value, t) ==
    [ k \in DOMAIN cache \cup { key } |->
        IF k = key THEN [ value |-> value, expire_time |-> t + CACHE_EXPIRE_HOURS ]
        ELSE cache[k] ]

\* a key without the top_k
cache_key_without_top_k(index_hash, expanded_query, top_k) ==
    "master_search:" \o index_hash \o ":" \o expanded_query

\* the key of search: f"master_search:{index_hash}:{expanded_query}:{top_k}"
cache_key(index_hash, expanded_query, top_k) ==
    "master_search:" \o index_hash \o ":" \o expanded_query \o ":" \o ToString(top_k)

\* a failure of the ensemble retriever that leaves search as an exception
RetrievalFailedRaises(cache) ==
    [ raised |-> TRUE, value |-> << >>, cache |-> cache, from_cache |-> FALSE ]

\* search's handler of a failure of the ensemble retriever: the error is
\* printed and search returns []
RetrievalFailed(cache) ==
    [ raised |-> FALSE, value |-> << >>, cache |-> cache, from_cache |-> FALSE ]

\* search(query, top_k) on retriever r: the list returned or the exception
\* raised, and the query cache afterwards.  fault names the step that fails.
search(r, query, top_k_arg, cache, t, fault, seed, ranking) ==
    IF ~Ready(r)
    THEN [ raised |-> FALSE, value |-> << >>, cache |-> cache, from_cache |-> FALSE ]
    ELSE
    LET top_k == IF top_k_arg = 0 THEN r.top_k ELSE top_k_arg
        expanded_query == _expand_query(query, seed)
        key == cache_key(r.index_hash, expanded_query, top_k)
        cached == CacheGet(cache, key, t)
        docs == EnsembleInvoke(Val(r.ensemble_retriever), ranking)
        results == [ i \in DOMAIN docs |->
                       [ content |-> docs[i].page_content,
                         source |-> docs[i].source,
                         score |-> Score(query, docs[i].page_content, i - 1),
                         chunk_id |-> docs[i].chunk_id ] ]
        top == Take(SortByScore(results), top_k)
    IN
    IF fault = "cache_get"
    THEN [ raised |-> TRUE, value |-> << >>, cache |-> cache, from_cache |-> FALSE ]
    ELSE IF cached # << >>
    THEN [ raised |-> FALSE, value |-> cached, cache |-> cache, from_cache |-> TRUE ]
    ELSE IF fault = "invoke" THEN RetrievalFailed(cache)
    ELSE IF docs = << >>
    THEN [ raised |-> FALSE, value |-> << >>, cache |-> cache, from_cache |-> FALSE ]
    ELSE IF fault = "score" \/ fault = "cache_set"
    THEN [ raised |-> TRUE, value |-> << >>, cache |-> cache, from_cache |-> FALSE ]
    ELSE [ raised |-> FALSE, value |-> top,
           cache |-> CacheSet(cache, key, top, t), from_cache |-> FALSE ]

(* -------------------------------- _run --------------------------------- *)
NO_ACTION_FOUND == "NO_ACTION_FOUND"
ERROR_PREFIX == "Error searching actions: "

Pad3(n) ==
    IF n < 10 THEN "00" \o ToString(n)
    ELSE IF n < 100 THEN "0" \o ToString(n) ELSE ToString(n)

\* f"{score:.3f}"
Format3f(score) ==
    LET thousandths == (100 * score + 3) \div 6
    IN ToString(thousandths \div 1000) \o "." \o Pad3(thousandths % 1000)

RECURSIVE FormatResults(_, _)
FormatResults(results, idx) ==
    IF idx > Len(results) THEN ""
    ELSE "**[" \o ToString(idx) \o "]** (Score: " \o Format3f(results[idx].score)
           \o ")\n" \o results[idx].content \o "\n\n"
           \o FormatResults(results, idx + 1)

RECURSIVE JoinBullet(_)
JoinBullet(ss) ==
    IF ss = << >> THEN ""
    ELSE IF Len(ss) = 1 THEN ss[1]
    ELSE ss[1] \o " * " \o JoinBullet(Tail(ss))

MaxScore(results) ==
    CHOOSE m \in { results[i].score : i \in DOMAIN results } :
        \A i \in DOMAIN results : results[i].score <= m

\* a gate that compares with the default threshold (0.3) whatever the
\* configured one
BelowDefaultThreshold(best_score, threshold) == best_score < 18

\* the confidence gate of _run
BelowThreshold(best_score, threshold) == best_score < threshold

\* the text _run returns for a list of results
FormatOutput(results, source_list) ==
    "Found " \o ToString(Len(results)) \o " relevant action(s):\n\n"
      \o FormatResults(results, 1)
      \o "Sources: " \o JoinBullet(source_list) \o "\n"

\* MasterActionsTool._run(query): the string returned, _last_sources and the
\* query cache afterwards, and what search returned to it
_run(r, query, cache, t, fault, seed, ranking, threshold) ==
    LET miss == [ ret |-> NO_ACTION_FOUND, _last_sources |-> << >>, cache |-> cache,
                  results |-> << >>, from_cache |-> FALSE ]
    IN
    IF r.documents = << >> THEN miss
    ELSE
    LET s == search(r, query, 5, cache, t, fault, seed, ranking)
        results == s.value
        source_list == SetOrder(seed, [ i \in DOMAIN results |-> results[i].source ])
        found == [ miss EXCEPT !.cache = s.cache, !.results = results,
                               !.from_cache = s.from_cache ]
    IN
    IF s.raised THEN [ miss EXCEPT !.ret = ERROR_PREFIX \o fault, !.cache = s.cache ]
    ELSE IF results = << >> THEN found
    ELSE IF BelowThreshold(MaxScore(results), threshold) THEN found
    ELSE [ found EXCEPT !.ret = FormatOutput(results, source_list),
                        !._last_sources = source_list ]

(* ------------------------------- state --------------------------------- *)
VARIABLES
    retr,          \* retr[i]: the fields of retriever i and the frame of its build_index call
    seed,          \* seed[i]: the string hash seed of the process of retriever i
    tool,          \* tool[i]: the tool of retriever i: its _last_sources
    disk,          \* the index directory: [vector, pkl]
    search_cache,  \* the query cache (search_cache), shared through the index directory
    files,         \* the document files
    now,           \* the wall clock, in hours
    threshold,     \* MasterActionsRetriever.CONFIDENCE_THRESHOLD, times ScoreScale
    ev,            \* the call that has just returned: what it found and what it returned
    admin          \* the admin console: its environment, its audit log, its response cache

vars == << retr, seed, tool, disk, search_cache, files, now, threshold, ev, admin >>

\* The retrievers: each is an object in a process of its own.
Inst == { "main", "peer" }

ChunkOverlaps == { 150, 100 }
\* 0.3 (the default) and 1.5
Thresholds == { 18, 90 }
Rankings == { "fwd", "rev" }

Tags == { "etag-a", "etag-b" }
DEFAULT_OVERLAP == 150

\* The ways the tool constructs its retriever: with a cache directory only,
\* with the version tag of the remote documents, with the document paths.
ConstructArgs ==
    { [ cache_dir |-> CACHE_DIR, document_paths |-> << >>, s3_version_hash |-> None ] }
    \cup { [ cache_dir |-> CACHE_DIR, document_paths |-> << >>, s3_version_hash |-> tag ] :
             tag \in Tags }
    \cup { [ cache_dir |-> None, document_paths |-> << 2, 1 >>, s3_version_hash |-> None ] }

\* The retrievers of the model: a tagged retriever runs the shipped chunk
\* settings, the others one of two chunk overlaps.
Configs ==
    { c \in [ args : ConstructArgs, overlap : ChunkOverlaps ] :
        TruthyStr(c.args.s3_version_hash) => c.overlap = DEFAULT_OVERLAP }

\* the way a retriever was constructed
Mode(a) ==
    IF TruthyStr(a.s3_version_hash) THEN "tag"
    ELSE IF TruthySeq(a.document_paths) THEN "paths" ELSE "cache_dir"

BuildFaults ==
    { "none", "loader", "embed", "save_faiss", "save_open", "save_dump",
      "load_pickle", "load_faiss" }
SearchFaults == { "none", "cache_get", "invoke", "score", "cache_set" }

NoEvent ==
    [ op |-> "none", inst |-> "none", force |-> FALSE, verdict |-> "na", outcome |-> "na",
      query |-> None, ret |-> None, results |-> << >>, from_cache |-> FALSE,
      seen |-> Null, top_k |-> 0, asked |-> << >>, fault |-> "none" ]

NewTool == [ _last_sources |-> << >> ]

\* The admin console of a deployment without CHAINLIT_AUTH_SECRET and
\* ADMIN_EMAILS, its audit log (data/logs/admin_audit.jsonl) and its
\* response cache directory (storage/response_cache) empty.
NoAdmin ==
    [ secret |-> "", admin_emails |-> << "" >>, audit |-> << >>, cache_files |-> {} ]

\* the bundle of a retriever on which no build has succeeded: UNBUILT
EmptyBundle == Bundle(__init__(CHOOSE a \in ConstructArgs : TRUE, 150))
Unbuilt(r) == Bundle(r) = EmptyBundle

\* what is left of the frame of a build_index call once it has returned
Returned(f) ==
    [ NoFrame EXCEPT !.outcome = f.outcome, !.was_fresh = f.was_fresh,
                     !.wrote = f.wrote ]

BuildEvent(i, f) ==
    [ NoEvent EXCEPT !.op = "build_index", !.inst = i, !.force = f.force,
                     !.verdict = f.verdict, !.outcome = f.outcome ]

(* ------------------------------ actions -------------------------------- *)
\* MasterActionsRetriever.__init__ (in MasterActionsTool.__init__): the
\* process of retriever i starts again and constructs its retriever the same
\* way, with the chunk overlap of the code it now runs or the version tag of
\* the day.
Construct(i, c) ==
    /\ retr[i].frame.pc = "idle"
    /\ Mode(c.args) = Mode(retr[i])
    /\ retr' = [ retr EXCEPT ![i] = __init__(c.args, c.overlap) ]
    /\ tool' = [ tool EXCEPT ![i] = NewTool ]
    /\ ev' = NoEvent
    /\ UNCHANGED << seed, disk, search_cache, files, now, threshold, admin >>

\* build_index(force_rebuild = force), from the call to its return
BuildIndex(i, force, fault) ==
    /\ retr[i].frame.pc = "idle"
    /\ \E w \in { build_index(retr[i], disk, force, fault, files, now) } :
          /\ retr' = [ retr EXCEPT ![i] = [ w.r EXCEPT !.frame = Returned(w.r.frame) ] ]
          /\ disk' = w.d
          /\ ev' = BuildEvent(i, w.r.frame)
    /\ UNCHANGED << seed, tool, search_cache, files, now, threshold, admin >>

\* a _run that leaves the sources of the call before it when it has none
KeepSources(prev, found) == IF found = << >> THEN prev ELSE found

\* what _run leaves in _last_sources: it first sets it to [], whatever it
\* held, and then to the sources of the results it formats, if any
SetSources(prev, found) == found

\* MasterActionsTool.last_sources(): a copy of _last_sources
last_sources(tl) == tl._last_sources

\* what a search reads of its retriever
Seen(r) ==
    [ documents |-> r.documents, vector_store |-> r.vector_store, bm25 |-> r.bm25,
      ensemble_retriever |-> r.ensemble_retriever, index_hash |-> r.index_hash ]

\* MasterActionsTool._run(query)
Run(i, query, fault, ranking) ==
    /\ retr[i].frame.pc = "idle"
    /\ \E out \in { _run(retr[i], query, search_cache, now, fault, seed[i], ranking,
                            threshold) } :
          /\ Cardinality(DOMAIN out.cache) <= MaxCacheEntries
          /\ tool' = [ tool EXCEPT ![i] =
                         [ _last_sources |->
                             SetSources(tool[i]._last_sources, out._last_sources) ] ]
          /\ search_cache' = out.cache
          /\ ev' = [ NoEvent EXCEPT !.op = "_run", !.inst = i, !.query = query,
                                    !.fault = fault, !.ret = out.ret,
                                    !.results = out.results,
                                    !.from_cache = out.from_cache,
                                    !.seen = IF Ready(retr[i]) THEN Some(Seen(retr[i]))
                                             ELSE Null ]
    /\ UNCHANGED << retr, seed, disk, files, now, threshold, admin >>

\* The clock advances by an hour or by a day.  Cache entries that have
\* expired stay in the cache directory: no get returns them any more.
Tick(d) ==
    /\ now + d <= MaxNow
    /\ d = 1 => now % 24 < MaxSmallTicks
    /\ now' = now + d
    /\ ev' = NoEvent
    /\ UNCHANGED << retr, seed, tool, disk, search_cache, files, threshold, admin >>

\* The storage layer rewrites a document file (a new version, a new
\* modification time) or removes it.
WriteFile(p) ==
    /\ files[p] < MaxVersionOf(p)
    /\ files' = [ files EXCEPT ![p] = files[p] + 1 ]
    /\ ev' = NoEvent
    /\ UNCHANGED << retr, seed, tool, disk, search_cache, now, threshold, admin >>

RemoveFile(p) ==
    /\ files[p] # 0
    /\ p # 2
    /\ files' = [ files EXCEPT ![p] = 0 ]
    /\ ev' = NoEvent
    /\ UNCHANGED << retr, seed, tool, disk, search_cache, now, threshold, admin >>

\* The state once the first retriever is constructed, in an empty index
\* directory.
InitWith(configs, seeds, thresholds) ==
    /\ \E c \in configs : retr = [ i \in Inst |-> __init__(c.args, c.overlap) ]
    /\ \E s \in seeds : seed = [ i \in Inst |-> s ]
    /\ tool = [ i \in Inst |-> NewTool ]
    /\ disk = [ vector |-> Null, pkl |-> Null ]
    /\ search_cache = << >>
    /\ files \in { << 0, 1, 0 >>, << 1, 1, 0 >> }
    /\ now = 0
    /\ threshold \in thresholds
    /\ ev = NoEvent
    /\ admin = NoAdmin

\* The retriever of the sequential specifications.
Main == "main"

(* The life of the persisted index: a retriever is constructed again and    *)
(* again (new code, a new version tag), builds, loads and rebuilds, while   *)
(* the documents change and time passes.                                    *)
LifeFaults == { "none", "loader", "embed", "save_faiss", "load_pickle", "load_faiss" }

Init == InitWith(Configs, { 0 }, { 18 })

Next ==
    \/ \E c \in Configs : Construct(Main, c)
    \/ \E force \in BOOLEAN, fault \in LifeFaults : BuildIndex(Main, force, fault)
    \/ \E d \in { TTL_HOURS, TTL_HOURS + 1 } : Tick(d)
    \/ \E p \in PathIds : WriteFile(p)
    \/ \E p \in PathIds : RemoveFile(p)

Spec == Init /\ [][Next]_vars

(* The fingerprint: retrievers constructed in every way build their index   *)
(* while the documents change; nothing fails and no time passes.            *)
NextFingerprint ==
    \/ \E c \in Configs : Construct(Main, c)
    \/ \E force \in BOOLEAN : BuildIndex(Main, force, "none")
    \/ \E p \in PathIds : WriteFile(p)
    \/ \E p \in PathIds : RemoveFile(p)

SpecFingerprint == Init /\ [][NextFingerprint]_vars

(* Serving: one retriever, constructed with a cache directory only, builds  *)
(* and answers queries.                                                     *)
ServeConfigs == { c \in Configs : Mode(c.args) = "cache_dir" /\ c.overlap = DEFAULT_OVERLAP }
ServeFaults == { "none", "loader", "embed", "save_faiss" }

InitSearch == InitWith(ServeConfigs, { 0 }, Thresholds)

NextSearch ==
    \/ \E force \in BOOLEAN, fault \in ServeFaults : BuildIndex(Main, force, fault)
    \/ \E query \in Queries, fault \in SearchFaults, ranking \in Rankings :
           Run(Main, query, fault, ranking)
    \/ \E p \in PathIds : WriteFile(p)
    \/ \E p \in PathIds : RemoveFile(p)

SpecSearch == InitSearch /\ [][NextSearch]_vars

(* The query cache over time: one retriever builds and rebuilds and answers *)
(* queries while the documents change and the hours pass.                   *)
CacheFaults == { "none", "invoke" }
CacheBuildFaults == { "none", "save_faiss" }

NextCache ==
    \/ \E force \in BOOLEAN, fault \in CacheBuildFaults : BuildIndex(Main, force, fault)
    \/ \E query \in Queries, fault \in CacheFaults, ranking \in Rankings :
           Run(Main, query, fault, ranking)
    \/ Tick(CACHE_EXPIRE_HOURS)
    \/ WriteFile(1)

SpecCache == InitWith(ServeConfigs, { 0 }, { 18 }) /\ [][NextCache]_vars

(* ------------------- the persisted index: C1 .. C5 --------------------- *)
\* the retriever of the sequential specifications and the fingerprint
\* build_index computes for it now
Cur == retr[Main]
CurrentHash == _compute_version_hash(Cur, files)

\* build_index(force_rebuild = False) has just returned on Main
JustBuilt == ev.op = "build_index" /\ ev.inst = Main /\ ~ev.force

\* C1: build_index(force_rebuild=False) installs the persisted bundle only if
\* the fingerprint stored in the sparse-index file equals the fingerprint
\* computed for the current retriever; when they differ _load_index reports
\* not-loaded, leaves the indexes, the chunk list and the fingerprint in
\* memory as they were, and build_index goes on to rebuild.  Stated of every
\* reachable retriever, index directory, set of files and clock, and of every
\* fault of the load.
C1_FingerprintGatesLoad ==
    \A fault \in LifeFaults :
        \A loaded \in { _load_index(Cur, disk, fault, files, now) } :
           /\ loaded.frame.verdict = "loaded" =>
                /\ disk.pkl # Null
                /\ Val(disk.pkl).index_hash = CurrentHash
                /\ loaded.index_hash = CurrentHash
                /\ loaded.documents = Val(disk.pkl).documents
                /\ loaded.vector_store = disk.vector
           /\ (disk.pkl # Null /\ Val(disk.pkl).index_hash # CurrentHash) =>
                /\ loaded.frame.verdict # "loaded"
                /\ loaded.frame.pc = "load_doc"
                /\ Bundle(loaded) = Bundle(Cur)
                /\ build_index(Cur, disk, FALSE, fault, files, now).r.frame.outcome
                     \in { "rebuilt", "no_document", "no_chunks", "raised" }

\* C1 witness: an index saved with one chunk_overlap is in the directory, not
\* expired, and build_index(False) of a retriever with the other chunk_overlap
\* has just found the fingerprints different and has rebuilt.
C1_Witness ==
    /\ JustBuilt
    /\ ev.verdict = "mismatch"
    /\ ev.outcome = "rebuilt"
    /\ Mode(Cur) = "cache_dir"
    /\ Cur.chunk_overlap # DEFAULT_OVERLAP
    /\ Cur.index_hash = CurrentHash

\* C2: at every load the age of the persisted index is the clock minus the
\* modification time of the sparse-index file; a persisted index older than
\* 24 hours is never installed by build_index(force_rebuild=False), even when
\* its stored fingerprint is the current one, and build_index goes on to
\* rebuild.
C2_AgeGatesLoad ==
    (disk.pkl # Null /\ now - Val(disk.pkl).mtime > TTL_HOURS) =>
        \A fault \in LifeFaults :
           \A loaded \in { _load_index(Cur, disk, fault, files, now) } :
              /\ loaded.frame.verdict # "loaded"
              /\ loaded.frame.pc = "load_doc"
              /\ Bundle(loaded) = Bundle(Cur)
              /\ build_index(Cur, disk, FALSE, fault, files, now).r.frame.outcome
                   \in { "rebuilt", "no_document", "no_chunks", "raised" }

\* C2 witness: build_index(False) has just turned down, for its age, an
\* index that is complete and has the current fingerprint; the build that
\* followed found no document, so that index is still in the directory.
C2_Witness ==
    /\ JustBuilt
    /\ ev.verdict = "expired"
    /\ disk.vector # Null
    /\ disk.pkl # Null
    /\ ~Val(disk.pkl).partial
    /\ Val(disk.pkl).index_hash = CurrentHash
    /\ now - Val(disk.pkl).mtime > TTL_HOURS

\* C3: the retriever never serves a stale index: however it was constructed,
\* when build_index(force_rebuild=False) installs the persisted index, that
\* index was built from the master document a build would load now (the same
\* file, the same version).
C3_NeverLoadsStale ==
    (JustBuilt /\ ev.outcome = "loaded") =>
        LET p == _find_master_document(Cur, files)
        IN p # 0 => Val(Cur.vector_store).master = << p, files[p] >>

\* the build configuration record of the spec: the retriever's fields and the
\* confidence threshold
BuildConfig == [ r |-> Cur, confidence_threshold |-> threshold ]
ConfigFingerprint(c) == _compute_version_hash(c.r, files)

\* the configurations that differ from BuildConfig in one field
SingleFieldChanges ==
    { [ BuildConfig EXCEPT !.r.chunk_size = 500 ],
      [ BuildConfig EXCEPT !.r.chunk_overlap = IF Cur.chunk_overlap = 100 THEN 150 ELSE 100 ],
      [ BuildConfig EXCEPT !.r.top_k = 3 ],
      [ BuildConfig EXCEPT !.r.bm25_weight = 5 ],
      [ BuildConfig EXCEPT !.r.vector_weight = 5 ],
      [ BuildConfig EXCEPT !.confidence_threshold = 90 ] }

\* C4: changing any single field of the build configuration (chunk_size,
\* chunk_overlap, top_k, bm25_weight, vector_weight, confidence_threshold),
\* the documents being the same, changes the fingerprint.
C4_EveryFieldChangesFingerprint ==
    \A c \in SingleFieldChanges : ConfigFingerprint(c) # ConfigFingerprint(BuildConfig)

\* the lists of distinct document paths
PathLists ==
    { s \in UNION { [ 1 .. n -> PathIds ] : n \in 0 .. Len(PathName) } :
        \A i, j \in DOMAIN s : i # j => s[i] # s[j] }
Range(s) == { s[i] : i \in DOMAIN s }
\* the pairs of listings of the same paths
SamePaths == { pair \in PathLists \X PathLists : Range(pair[1]) = Range(pair[2]) }

\* the fields _compute_version_hash reads, for a retriever with the chunk
\* settings of Main, the document paths s and the version tag tag
Hashed(s, tag) ==
    [ s3_version_hash |-> tag, document_paths |-> s,
      chunk_size |-> Cur.chunk_size, chunk_overlap |-> Cur.chunk_overlap ]

\* C5: _compute_version_hash is order-independent: with the same version
\* tag, or with no tag and the same document paths with the same modification
\* times listed in any order, and the same chunk_size and chunk_overlap, it
\* returns the same fingerprint, whatever the files and the chunk settings.
C5_OrderIndependent ==
    \A pair \in SamePaths, tag \in Tags \cup { None } :
        _compute_version_hash(Hashed(pair[1], tag), files)
          = _compute_version_hash(Hashed(pair[2], tag), files)

\* C5 witness: a retriever given its document paths out of order has built
\* its index, and its fingerprint is the one of the paths in order.
C5_Witness ==
    /\ ev.op = "build_index"
    /\ ev.outcome = "rebuilt"
    /\ Cur.document_paths = << 2, 1 >>
    /\ FileExists(files, 1)
    /\ Cur.index_hash = _compute_version_hash(Hashed(<< 1, 2 >>, None), files)

(* ------------------------- serving: C6 .. C8 --------------------------- *)
\* build_index on the fresh retriever Main has just returned without loading
\* an index, and there was no master document for it, or one without chunks
EmptyCorpusBuild ==
    /\ ev.op = "build_index"
    /\ ev.inst = Main
    /\ Cur.frame.was_fresh
    /\ ev.verdict # "loaded"
    /\ \/ ev.outcome \in { "no_document", "no_chunks" }
       \/ LET p == _find_master_document(Cur, files)
          IN p = 0 \/ _chunk_documents(p, files[p]) = << >>

\* C6: when build_index on a fresh retriever finds no master document, or a
\* document that yields no chunks, the retriever stays UNBUILT (no indexes,
\* no chunks, no fingerprint) and the call writes nothing to the index
\* directory; and as long as a retriever is UNBUILT every search returns the
\* empty list and every _run returns "NO_ACTION_FOUND" with no sources,
\* whatever fails inside, and no exception reaches the caller.
C6_EmptyCorpusStaysUnbuilt ==
    /\ EmptyCorpusBuild => (Unbuilt(Cur) /\ ~Cur.frame.wrote)
    /\ Unbuilt(Cur) =>
         \A query \in Queries, fault \in SearchFaults, ranking \in Rankings :
            \A s \in { search(Cur, query, 5, search_cache, now, fault, seed[Main],
                               ranking) },
               out \in { _run(Cur, query, search_cache, now, fault, seed[Main], ranking,
                              threshold) } :
               /\ ~s.raised
               /\ s.value = << >>
               /\ out.ret = NO_ACTION_FOUND
               /\ out._last_sources = << >>
               /\ out.cache = search_cache

\* C6 witness: the first build of the retriever found a document without
\* chunks, and a _run after it has just returned "NO_ACTION_FOUND".
C6_Witness ==
    /\ Cur.frame.was_fresh
    /\ Cur.frame.outcome = "no_chunks"
    /\ Unbuilt(Cur)
    /\ ev.op = "_run"
    /\ ev.ret = NO_ACTION_FOUND

\* C7: whatever the query and whatever fails in the search (the read or the
\* write of the query cache, the retriever, the scoring), _run returns the
\* formatted list of the results it found or exactly "NO_ACTION_FOUND",
\* never the text of an internal error.
C7_NeverErrorText ==
    ev.op = "_run" =>
        \/ ev.ret = NO_ACTION_FOUND
        \/ /\ ev.results # << >>
           /\ ev.ret = FormatOutput(ev.results, tool[Main]._last_sources)

\* C8: whenever the best score among the results search returns to _run,
\* computed or taken from the query cache, is below CONFIDENCE_THRESHOLD,
\* _run returns "NO_ACTION_FOUND" and records no sources.
C8_ConfidenceGate ==
    (ev.op = "_run" /\ ev.results # << >> /\ MaxScore(ev.results) < threshold) =>
        (ev.ret = NO_ACTION_FOUND /\ tool[Main]._last_sources = << >>)

\* C8 witness: _run has just turned down results that search took from the
\* query cache and whose best score is above 0.3 and below the threshold.
C8_Witness ==
    /\ ev.op = "_run"
    /\ ev.from_cache
    /\ ev.results # << >>
    /\ MaxScore(ev.results) < threshold
    /\ MaxScore(ev.results) >= 18
    /\ ev.ret = NO_ACTION_FOUND

(* --------------------- concurrency: C9 and C10 ------------------------- *)
(* Two processes share the index directory; each runs build_index one step  *)
(* at a time.  The first loads the index or builds it, and a second thread  *)
(* of it searches its retriever meanwhile; the second, Peer, forces         *)
(* rebuilds, and its save may fail before the sparse-index file is opened.  *)
(* Nothing in build_index, _save_index, _load_index or search takes a lock. *)

\* build_index(force_rebuild = force) is called on retriever i
Call(i, force, fault) ==
    /\ retr[i].frame.pc = "idle"
    /\ retr' = [ retr EXCEPT ![i] = build_call(retr[i], force, fault, files) ]
    /\ ev' = NoEvent
    /\ UNCHANGED << seed, tool, disk, search_cache, files, now, threshold, admin >>

\* the build_index call of retriever i takes its next step, and returns after
\* its last
Step(i) ==
    /\ retr[i].frame.pc \notin { "idle", "done" }
    /\ \E w \in { build_step(retr[i], disk, files, now) } :
          /\ retr' = [ retr EXCEPT ![i] =
                         IF w.r.frame.pc = "done"
                         THEN [ w.r EXCEPT !.frame = Returned(w.r.frame) ]
                         ELSE w.r ]
          /\ disk' = w.d
          /\ ev' = IF w.r.frame.pc = "done" THEN BuildEvent(i, w.r.frame) ELSE NoEvent
    /\ UNCHANGED << seed, tool, search_cache, files, now, threshold, admin >>

\* search(query) on retriever i, by a thread of its own, whatever the
\* build_index call of i is doing
Search(i, query, ranking) ==
    /\ \E s \in { search(retr[i], query, 0, search_cache, now, "none", seed[i], ranking) } :
          /\ Cardinality(DOMAIN s.cache) <= MaxCacheEntries
          /\ search_cache' = s.cache
          /\ ev' = [ NoEvent EXCEPT !.op = "search", !.inst = i, !.query = query,
                                    !.results = s.value,
                                    !.from_cache = s.from_cache,
                                    !.seen = IF Ready(retr[i]) THEN Some(Seen(retr[i]))
                                             ELSE Null ]
    /\ UNCHANGED << retr, seed, tool, disk, files, now, threshold, admin >>

Peer == "peer"
ConcFaults == { "none", "save_open" }

InitConc == InitWith(ServeConfigs, { 0 }, { 18 })

NextConc ==
    \/ Call(Main, FALSE, "none")
    \/ \E fault \in ConcFaults : Call(Peer, TRUE, fault)
    \/ \E i \in Inst : Step(i)
    \/ \E query \in { "Payslip" } : Search(Main, query, "fwd")
    \/ WriteFile(1)

SpecConc == InitConc /\ [][NextConc]_vars

\* the pieces a search has read come from one build: the chunk list, the
\* dense index, the sparse index and the two retrievers of the ensemble hold
\* the same chunks, and the fingerprint is the one they were built for
OneBuild(b) ==
    /\ b.vector_store # Null
    /\ b.bm25 # Null
    /\ b.ensemble_retriever # Null
    /\ Val(b.vector_store).docs = b.documents
    /\ Val(b.bm25).docs = b.documents
    /\ Val(b.vector_store).master = Val(b.bm25).master
    /\ Val(b.ensemble_retriever).retrievers[1].of = b.documents
    /\ Val(b.ensemble_retriever).retrievers[2].of = b.documents
    /\ b.index_hash = Val(b.vector_store).built_for
    /\ b.index_hash = Val(b.bm25).built_for

\* C9: a search that runs on a retriever while build_index is rebuilding it
\* sees the complete old bundle or the complete new one: the chunk list, the
\* dense index, the sparse index, the ensemble retriever and the fingerprint
\* of the cache key all come from the same build.
C9_SearchSeesOneBuild ==
    (ev.op = "search" /\ ev.seen # Null) => OneBuild(Val(ev.seen))

\* C10: whatever the interleaving of a process that saves (or whose save
\* fails part-way, or that deletes the artifacts for a forced rebuild) with a
\* process that loads, the bundle _load_index accepts has its dense-index
\* artifact and its sparse-index and chunk file written by the same build.
C10_LoadsOneBuild ==
    \A i \in Inst :
        (ev.op = "build_index" /\ ev.inst = i /\ ev.outcome = "loaded") =>
            /\ Val(retr[i].vector_store).master = Val(retr[i].bm25).master
            /\ Val(retr[i].vector_store).docs = retr[i].documents
            /\ Val(retr[i].vector_store).built_for = retr[i].index_hash

(* ------------------ failures of a rebuild: C11, C12 -------------------- *)
\* C11: when the embedding fails while build_index rebuilds a retriever that
\* was READY, the failure reaches the caller of build_index and the bundle
\* built before stays in use unchanged: the chunk list, both indexes, the
\* retrievers and the fingerprint are those of the earlier build.
C11_EmbedFailureKeepsBundle ==
    Ready(Cur) =>
        \A force \in BOOLEAN :
           \A w \in { build_index(Cur, disk, force, "embed", files, now) } :
              w.r.frame.pc = "done" /\
              (w.r.frame.outcome \notin { "loaded", "no_document", "no_chunks" } =>
                 /\ w.r.frame.outcome = "raised"
                 /\ Bundle(w.r) = Bundle(Cur))

\* the faults of _save_index: the write of the dense index, the opening of
\* the sparse-index file, the pickling into it
SaveFaults == { "save_faiss", "save_open", "save_dump" }

\* C12: when a write of _save_index fails, build_index still returns
\* normally, the retriever is READY with the current fingerprint, and every
\* search in the process returns what it would return had the save
\* succeeded.  Stated of every reachable retriever on which build_index
\* rebuilds.
C12_SaveFailureNotFatal ==
    \A force \in BOOLEAN :
       \A ok \in { build_index(Cur, disk, force, "none", files, now) } :
          ok.r.frame.outcome = "rebuilt" =>
             \A fault \in SaveFaults :
                \A w \in { build_index(Cur, disk, force, fault, files, now) } :
                   /\ w.r.frame.outcome = "rebuilt"
                   /\ Ready(w.r)
                   /\ w.r.index_hash = CurrentHash
                   /\ Bundle(w.r) = Bundle(ok.r)
                   /\ \A query \in Queries, ranking \in Rankings :
                         search(w.r, query, 5, search_cache, now, "none", seed[Main],
                                ranking).value
                           = search(ok.r, query, 5, search_cache, now, "none",
                                    seed[Main], ranking).value

\* C12 witness: the save of the last build failed before anything was
\* written, the retriever holds the current fingerprint, and a _run on it
\* has just returned results.
C12_Witness ==
    /\ Cur.frame.outcome = "rebuilt"
    /\ ~Cur.frame.wrote
    /\ Ready(Cur)
    /\ Cur.index_hash = CurrentHash
    /\ ev.op = "_run"
    /\ ev.results # << >>

(* --------------------- save and load: C13, C17 ------------------------- *)
\* a retriever constructed anew the way r was, with r's chunk settings
NewLike(r) ==
    __init__([ cache_dir |-> r.cache_dir, document_paths |-> r.document_paths,
               s3_version_hash |-> r.s3_version_hash ], r.chunk_overlap)

\* build_index has just rebuilt Main and its save has written both artifacts
JustSaved ==
    /\ ev.op = "build_index"
    /\ ev.inst = Main
    /\ ev.outcome = "rebuilt"
    /\ disk.vector = Cur.vector_store
    /\ disk.pkl # Null
    /\ ~Val(disk.pkl).partial
    /\ Val(disk.pkl).mtime = now
    /\ Val(disk.pkl).bm25 = Cur.bm25

ChunkIds(documents) == [ i \in DOMAIN documents |-> documents[i].chunk_id ]

\* C17: whenever the retriever is READY, after a build or after a load from
\* disk, the chunk_id values of its chunk list are exactly 0, 1, ..., n-1 in
\* list order, with no gap and no duplicate; and so are those of the chunk
\* list a complete sparse-index file holds.
C17_ChunkIdsDense ==
    /\ Ready(Cur) =>
          ChunkIds(Cur.documents) = [ i \in 1 .. Len(Cur.documents) |-> i - 1 ]
    /\ (disk.pkl # Null /\ ~Val(disk.pkl).partial) =>
          ChunkIds(Val(disk.pkl).documents)
            = [ i \in 1 .. Len(Val(disk.pkl).documents) |-> i - 1 ]

\* C17 witness: a retriever constructed anew is READY on a chunk list of two
\* chunks that it has just loaded from disk.
C17_Witness ==
    /\ Ready(Cur)
    /\ JustBuilt
    /\ ev.outcome = "loaded"
    /\ Cur.frame.was_fresh
    /\ ChunkIds(Cur.documents) = << 0, 1 >>

(* ----------------------- the query cache: C14, C15 --------------------- *)
\* search(query) on Main, with top_k = 5 as _run calls it
FirstSearch(query, fault, ranking) ==
    search(Cur, query, 5, search_cache, now, fault, seed[Main], ranking)

\* the faults of a search that do not stop it reading the query cache
AfterReadFaults == SearchFaults \ { "cache_get" }

KeyOf(query) == cache_key(Cur.index_hash, _expand_query(query, seed[Main]), 5)

\* C15: every result list search stores in the query cache is stored with a
\* time-to-live of one hour: the entry a search has just written expires one
\* hour after the write, no entry outlives its hour, and a lookup of a key
\* an hour or more after it was written is a miss: search computes the
\* results again from the index the retriever holds now, and stores them for
\* another hour.
C15_CacheEntriesExpire ==
    /\ (ev.op = "_run" /\ ~ev.from_cache /\ ev.results # << >>) =>
          \E k \in DOMAIN search_cache :
             /\ search_cache[k].value = ev.results
             /\ search_cache[k].expire_time = now + CACHE_EXPIRE_HOURS
    /\ \A k \in DOMAIN search_cache :
          search_cache[k].expire_time <= now + CACHE_EXPIRE_HOURS
    /\ Ready(Cur) =>
          \A query \in Queries, ranking \in Rankings :
             (/\ KeyOf(query) \in DOMAIN search_cache
              /\ search_cache[KeyOf(query)].expire_time <= now) =>
                 \A s \in { FirstSearch(query, "none", ranking) } :
                    /\ ~s.from_cache
                    /\ s.value = search(Cur, query, 5, << >>, now, "none", seed[Main],
                                        ranking).value
                    /\ s.cache[KeyOf(query)].value = s.value
                    /\ s.cache[KeyOf(query)].expire_time = now + CACHE_EXPIRE_HOURS

\* C15 witness: the results an earlier search stored are still in the cache
\* directory an hour after the write, the index has been rebuilt from a new
\* version of the document since, and a search of the same key now is a
\* miss.
C15_Witness ==
    /\ Ready(Cur)
    /\ \E query \in Queries :
          /\ KeyOf(query) \in DOMAIN search_cache
          /\ search_cache[KeyOf(query)].expire_time <= now
          /\ ~FirstSearch(query, "none", "fwd").from_cache
          /\ \E i \in DOMAIN search_cache[KeyOf(query)].value :
                \A j \in DOMAIN Cur.documents :
                   search_cache[KeyOf(query)].value[i].content
                     # Cur.documents[j].page_content

(* ---------------------- the state machine: C16 ------------------------- *)
\* every search and every _run on Main returns no result
NoResults ==
    \A query \in Queries, ranking \in Rankings :
       /\ FirstSearch(query, "none", ranking).value = << >>
       /\ _run(Cur, query, search_cache, now, "none", seed[Main], ranking,
               threshold).ret = NO_ACTION_FOUND

\* C16: the retriever leaves READY for UNBUILT when a rebuild starts: when
\* build_index(force_rebuild=True) is called on a READY retriever and the
\* rebuild finds no source document, the retriever is UNBUILT after the call
\* and every later search returns no result.
C16_RebuildWithoutDocumentUnbuilds ==
    (ev.op = "build_index" /\ ev.inst = Main /\ ev.force
       /\ ev.outcome = "no_document") =>
         (Unbuilt(Cur) /\ NoResults)


(* ------------- query expansion and scoring: C18, C20 ------------------- *)
(* The functions of search on a query: the processes of the two retrievers  *)
(* expand queries, and the first builds its index and searches it.  A       *)
(* process that starts again has another string hash seed.                  *)

\* the process of retriever i starts again
Restart(i) ==
    /\ \E s \in HashSeeds \ { seed[i] } : seed' = [ seed EXCEPT ![i] = s ]
    /\ ev' = NoEvent
    /\ UNCHANGED << retr, tool, disk, search_cache, files, now, threshold, admin >>

\* _expand_query(query) in the process of retriever i
Expand(i, query) ==
    /\ ev' = [ NoEvent EXCEPT !.op = "_expand_query", !.inst = i, !.query = query,
                              !.ret = _expand_query(query, seed[i]) ]
    /\ UNCHANGED << retr, seed, tool, disk, search_cache, files, now, threshold, admin >>

NextQuery ==
    \/ \E i \in Inst : Restart(i)
    \/ \E i \in Inst, query \in ExpandQueries : Expand(i, query)
    \/ BuildIndex(Main, FALSE, "none")
    \/ WriteFile(1)
    \/ \E query \in ExpandQueries, ranking \in Rankings : Search(Main, query, ranking)

SpecQuery == InitWith(ServeConfigs, HashSeeds, { 18 }) /\ [][NextQuery]_vars

\* s begins with prefix; s without its first n characters
StartsWith(s, prefix) == Len(s) >= Len(prefix) /\ SubSeq(s, 1, Len(prefix)) = prefix
DropFirst(s, n) == SubSeq(s, n + 1, Len(s))

\* text is a list of strings of the set words, one space between them
RECURSIVE MadeOf(_, _)
MadeOf(text, words) ==
    \E w \in words :
       /\ StartsWith(text, w)
       /\ \/ Len(text) = Len(w)
          \/ /\ StartsWith(DropFirst(text, Len(w)), " ")
             /\ MadeOf(DropFirst(text, Len(w) + 1), words)

\* the synonyms configured for the domain keywords that occur in the
\* lower-cased query
SynonymsFor(query) ==
    UNION { { ActionExpansions[k][2][j] : j \in DOMAIN ActionExpansions[k][2] } :
              k \in { k \in DOMAIN ActionExpansions :
                        Contains(Chars[ActionExpansions[k][1]], Lower(Chars[query])) } }

\* C18: query expansion is purely additive: the string _expand_query returns
\* starts with the original query unchanged, what follows it is a space and
\* then only synonyms configured for domain keywords that occur in the
\* lower-cased query, and when no domain keyword occurs the string is the
\* original query.
C18_ExpansionAdditive ==
    ev.op = "_expand_query" =>
        /\ StartsWith(ev.ret, ev.query)
        /\ SynonymsFor(ev.query) = {} => ev.ret = ev.query
        /\ ev.ret # ev.query =>
              /\ StartsWith(DropFirst(ev.ret, Len(ev.query)), " ")
              /\ MadeOf(DropFirst(ev.ret, Len(ev.query) + 1), SynonymsFor(ev.query))

\* C18 witness: a query with two domain keywords in capitals, between
\* spaces, has just been expanded to more than the query.
C18_Witness ==
    /\ ev.op = "_expand_query"
    /\ ev.query = " Apply Leave "
    /\ ev.ret # ev.query
    /\ Cardinality(SynonymsFor(ev.query)) = 7

\* the candidates the ensemble returns for a search on Main, in its order
Candidates(ranking) == EnsembleInvoke(Val(Cur.ensemble_retriever), ranking)

\* the distinct tokens of the query, stop words removed, that occur in the
\* lower-cased text
TokenHits(query, content) ==
    { tok \in Tokens(Lower(Chars[query])) \ StopWords :
        Contains(tok, Lower(Chars[content])) }

\* the lower-cased text contains one of the action markers
HasMarker(content) ==
    \E m \in { "link:", "steps:", "step 1", "step 2", "click", "navigate", "select",
                "action name:" } : Contains(Chars[m], Lower(Chars[content]))

\* C20: for every candidate the ensemble returns at 0-based position rank,
\* the score search assigns is 1/(rank+1), plus 0.1 for each distinct token
\* of the original query (not of the expanded query), stop words removed,
\* that occurs in the lower-cased chunk text, plus 0.2 if that text contains
\* one of the action markers.  Scores are in sixtieths: 60/(rank+1), 6 per
\* token, 12 for a marker.
C20_ScoreFormula ==
    Ready(Cur) =>
        \A query \in ExpandQueries, ranking \in Rankings :
           \A s \in { search(Cur, query, 5, << >>, now, "none", seed[Main], ranking) },
              docs \in { Candidates(ranking) } :
              /\ Len(s.value) = Len(docs)
              /\ \A rank \in 0 .. Len(docs) - 1 :
                    \E i \in DOMAIN s.value :
                       /\ s.value[i].content = docs[rank + 1].page_content
                       /\ s.value[i].chunk_id = docs[rank + 1].chunk_id
                       /\ s.value[i].score
                            = (60 \div (rank + 1))
                              + 6 * Cardinality(TokenHits(query, docs[rank + 1].page_content))
                              + (IF HasMarker(docs[rank + 1].page_content) THEN 12 ELSE 0)

\* C20 witness: a search of "Form-16" has just scored a chunk that holds a
\* word of the expanded query and none of the query, and a search scores a
\* chunk with a query token and a marker.
C20_Witness ==
    /\ ev.op = "search"
    /\ ~ev.from_cache
    /\ ev.query = "Form-16"
    /\ Len(ev.results) = 1
    /\ ev.results[1].content = "Payslip and TDS"
    /\ ev.results[1].score = 60
    /\ Contains(Chars["tds"], Lower(Chars[ev.results[1].content]))

(* ------------------------ the admin console: C19 ----------------------- *)
(* src/src/hr_bot/ui/admin: auth.py and the route handlers of routes.py.    *)
(* A token is what its signer made it: the algorithm and the key it was     *)
(* signed with, its exp claim (in hours, or none) and its payload.  A key   *)
(* absent from a payload is None.                                           *)

\* Entries the audit log holds at most.
MaxAuditEntries == 2

\* _get_admin_emails: the entries of ADMIN_EMAILS between the commas,
\* stripped and lower-cased, the empty ones left out (as characters)
_get_admin_emails(env) ==
    { Lower(Strip(Chars[env[i]])) :
        i \in { i \in DOMAIN env : Strip(Chars[env[i]]) # << >> } }

\* jwt.decode(token, secret, algorithms=["HS256"]) raises for a token of
\* another algorithm, for a signature made with another key, and for an exp
\* that is not in the future
JwtDecodes(token, secret, t) ==
    /\ token.alg = "HS256"
    /\ token.key = secret
    /\ token.exp # Null => Val(token.exp) > t

\* a decoder that tries the token against whatever the secret is, set or not
decode_with_any_secret(cookie, secret, t) ==
    IF cookie = Null THEN Null
    ELSE IF ~JwtDecodes(Val(cookie), secret, t) THEN Null
    ELSE Some(Val(cookie).payload)

\* decode_chainlit_token: the payload of the access_token cookie, or None
decode_chainlit_token(cookie, secret, t) ==
    IF cookie = Null THEN Null
    ELSE IF secret = "" THEN Null
    ELSE IF ~JwtDecodes(Val(cookie), secret, t) THEN Null
    ELSE Some(Val(cookie).payload)

NoPayload == [ email |-> None, sub |-> None, identifier |-> None, user |-> Null ]

\* a or b of two optional strings
Or(a, b) == IF TruthyStr(a) THEN a ELSE b

\* get_current_user: None, or the e-mail of the token, stripped and
\* lower-cased, and whether it is an admin's
get_current_user(cookie, env, t) ==
    LET decoded == decode_chainlit_token(cookie, env.secret, t)
    IN
    IF decoded = Null \/ decoded = Some(NoPayload) THEN Null
    ELSE
    LET payload == Val(decoded)
        direct == IF payload.email # None THEN payload.email
                  ELSE IF payload.sub # None THEN payload.sub
                  ELSE payload.identifier
        email == IF ~TruthyStr(direct) /\ payload.user # Null
                 THEN Or(Val(payload.user).email,
                         Or(Val(payload.user).identifier, Val(payload.user).sub))
                 ELSE direct
    IN
    IF ~TruthyStr(email) THEN Null
    ELSE Some([ email |-> FromChars(Lower(Strip(Chars[email]))),
                is_admin |-> Lower(Strip(Chars[email]))
                               \in _get_admin_emails(env.admin_emails) ])

NOT_AUTHENTICATED == "/?error=not_authenticated"
NOT_ADMIN == "/?error=not_admin"

\* require_admin: None when the user is an admin, else the redirect
require_admin(cookie, env, t) ==
    LET user == get_current_user(cookie, env, t)
    IN IF user = Null THEN NOT_AUTHENTICATED
       ELSE IF ~Val(user).is_admin THEN NOT_ADMIN
       ELSE None

PageRoutes ==
    { "dashboard", "cache_page", "users_page", "logs_page", "rag_page", "settings_page" }
ApiRoutes ==
    { "api_stats", "api_clear_cache", "api_cache_stats_partial", "api_refresh_docs",
      "api_rebuild_index", "api_test_search" }
Routes == PageRoutes \cup ApiRoutes

\* the audit action a handler logs before it calls the service
AuditAction ==
    [ api_clear_cache |-> "clear_cache", api_refresh_docs |-> "refresh_s3_documents",
      api_rebuild_index |-> "rebuild_rag_index" ]

\* the admin_services operations the handler of a route calls once the
\* request is authorised, in order (s3_ok: refresh_s3_documents succeeds)
ServiceCalls(req) ==
    CASE req.route = "dashboard" -> << "get_dashboard_stats" >>
      [] req.route = "cache_page" -> << "get_cache_stats", "get_cache_entries" >>
      [] req.route = "users_page" -> << "get_users", "get_admin_emails" >>
      [] req.route = "logs_page" -> << "get_query_logs", "get_admin_audit_log" >>
      [] req.route = "rag_page" -> << "get_rag_stats", "get_document_stats" >>
      [] req.route = "settings_page" -> << >>
      [] req.route = "api_stats" -> << "get_dashboard_stats" >>
      [] req.route = "api_cache_stats_partial" -> << "get_cache_stats" >>
      [] req.route = "api_clear_cache" -> << "_log_admin_action", "clear_cache" >>
      [] req.route = "api_refresh_docs" ->
           << "_log_admin_action", "refresh_s3_documents", "refresh_s3_documents" >>
      [] req.route = "api_rebuild_index" -> << "_log_admin_action", "rebuild_rag_index" >>
      [] req.route = "api_test_search" ->
           IF Strip(Chars[req.query]) = << >> THEN << >> ELSE << "test_rag_search" >>

\* the entries the audit log gains: the handler's, with the e-mail of the
\* user, then those of the service, which names no admin
AuditEntries(req, email) ==
    IF req.route \notin DOMAIN AuditAction THEN << >>
    ELSE LET own == [ admin |-> "unknown", action |-> AuditAction[req.route] ]
         IN << [ admin |-> email, action |-> AuditAction[req.route] ] >>
            \o (IF req.route = "api_refresh_docs"
                THEN (IF req.s3_ok THEN << own, own >> ELSE << >>)
                ELSE << own >>)

\* the file name ends with .json: it matches glob("*.json")
IsJson(name) == Len(name) >= 5 /\ SubSeq(name, Len(name) - 4, Len(name)) = ".json"

CACHE_STATS_FILE == "cache_stats.json"

\* AdminServices.get_cache_stats on the cache directory holding dir: the
\* number of cache files it reports
get_cache_stats(dir) ==
    [ total_entries |->
        Cardinality({ f \in dir : IsJson(f) /\ f # CACHE_STATS_FILE }) ]

\* AdminServices.clear_cache: what it returns and the directory afterwards
clear_cache(dir) ==
    [ success |-> TRUE,
      entries_cleared |-> Cardinality({ f \in dir : IsJson(f) }),
      dir |-> { f \in dir : ~IsJson(f) } ]

\* the handler of req.route on the request req: the response, the
\* admin_services operations called, and the audit log afterwards
handle(req, env, t) ==
    LET redirect == require_admin(req.cookie, env, t)
    IN IF redirect # None
       THEN [ status |-> IF req.route \in PageRoutes THEN "302" ELSE "403",
              location |-> IF req.route \in PageRoutes THEN redirect ELSE None,
              calls |-> << >>, audit |-> env.audit ]
       ELSE [ status |-> "200", location |-> None,
              calls |-> ServiceCalls(req),
              audit |-> env.audit
                          \o AuditEntries(req, Val(get_current_user(req.cookie, env, t)).email) ]

Secrets == { "", "s3cret" }
AdminEmailLists == { << "" >>, << "ada@hr.io" >>, << " Ada@hr.io ", "" >> }

\* The payloads of the tokens: an e-mail under one of the keys
\* get_current_user reads, under two of them, under none.
Payloads ==
    { [ NoPayload EXCEPT !.email = "ada@hr.io" ],
      [ NoPayload EXCEPT !.email = " Ada@hr.io " ],
      [ NoPayload EXCEPT !.email = "tom@hr.io" ],
      [ NoPayload EXCEPT !.sub = "ada@hr.io" ],
      [ NoPayload EXCEPT !.identifier = "tom@hr.io" ],
      [ NoPayload EXCEPT !.email = "tom@hr.io", !.sub = "ada@hr.io" ],
      [ NoPayload EXCEPT !.email = "",
                         !.user = Some([ email |-> None, identifier |-> "ada@hr.io",
                                         sub |-> None ]) ],
      [ NoPayload EXCEPT !.user = Some([ email |-> "tom@hr.io", identifier |-> None,
                                         sub |-> "ada@hr.io" ]) ],
      NoPayload }

AdminPayload == [ NoPayload EXCEPT !.email = "ada@hr.io" ]

\* The tokens of the requests: every payload signed with the secret of the
\* deployment, and an admin's payload signed with that key, with another
\* key or with the empty key, with and without an exp, passed or to come,
\* or not signed at all.
AccessTokens ==
    { [ alg |-> "HS256", key |-> "s3cret", exp |-> Some(MaxNow + 1), payload |-> p ] :
        p \in Payloads }
    \cup { [ alg |-> "HS256", key |-> k, exp |-> e, payload |-> AdminPayload ] :
             k \in Secrets \cup { "guess" }, e \in { Null, Some(0), Some(MaxNow + 1) } }
    \cup { [ alg |-> "none", key |-> "", exp |-> Null, payload |-> AdminPayload ] }

Cookies == { Null } \cup { Some(token) : token \in AccessTokens }

\* The requests: a route, the access_token cookie, the query of the search
\* form, and whether the document store answers.
Requests ==
    { req \in [ route : Routes, cookie : Cookies, query : { "", "Payslip" },
                s3_ok : BOOLEAN ] :
        /\ req.route # "api_test_search" => req.query = ""
        /\ req.route # "api_refresh_docs" => req.s3_ok }

\* a request reaches the admin console
Request(req) ==
    /\ \E out \in { handle(req, admin, now) } :
          /\ Len(out.audit) <= MaxAuditEntries
          /\ admin' = [ admin EXCEPT
                          !.audit = out.audit,
                          !.cache_files =
                              IF \E k \in DOMAIN out.calls : out.calls[k] = "clear_cache"
                              THEN clear_cache(admin.cache_files).dir
                              ELSE admin.cache_files ]
          /\ ev' = [ NoEvent EXCEPT !.op = "admin_request", !.ret = out.status,
                                    !.results = out.calls, !.seen = Some(req) ]
    /\ UNCHANGED << retr, seed, tool, disk, search_cache, files, now, threshold >>

\* The admin console starts again with another environment
\* (CHAINLIT_AUTH_SECRET, ADMIN_EMAILS); the audit log stays.
Deploy(secret, emails) ==
    /\ admin.secret # secret \/ admin.admin_emails # emails
    /\ admin' = [ admin EXCEPT !.secret = secret, !.admin_emails = emails ]
    /\ ev' = NoEvent
    /\ UNCHANGED << retr, seed, tool, disk, search_cache, files, now, threshold >>

NextAdmin ==
    \/ \E req \in Requests : Request(req)
    \/ \E secret \in Secrets, emails \in AdminEmailLists : Deploy(secret, emails)

InitAdmin == InitWith(ServeConfigs, { 0 }, { 18 }) /\ files = << 1, 1, 0 >>

SpecAdmin == InitAdmin /\ [][NextAdmin]_vars

\* the request that has just been answered, and the e-mails its token
\* carries under any of the keys
Req == Val(ev.seen)
Identities(payload) ==
    { payload.email, payload.sub, payload.identifier }
    \cup (IF payload.user = Null THEN {}
          ELSE { Val(payload.user).email, Val(payload.user).identifier,
                 Val(payload.user).sub })

\* the request carries an access_token signed with the configured secret,
\* not expired, with an e-mail of ADMIN_EMAILS (whatever its case and the
\* spaces around it)
Authorised(req) ==
    /\ req.cookie # Null
    /\ admin.secret # ""
    /\ Val(req.cookie).alg = "HS256"
    /\ Val(req.cookie).key = admin.secret
    /\ Val(req.cookie).exp # Null => Val(Val(req.cookie).exp) > now
    /\ \E e \in Identities(Val(req.cookie).payload) \ { None } :
          \E a \in DOMAIN admin.admin_emails :
             /\ Strip(Chars[e]) # << >>
             /\ Lower(Strip(Chars[e])) = Lower(Strip(Chars[admin.admin_emails[a]]))

\* C19: no admin operation runs for an unauthorised request: on every page
\* and API route, unless the request carries a valid, unexpired access_token
\* signed with the configured CHAINLIT_AUTH_SECRET whose e-mail is in
\* ADMIN_EMAILS, the handler answers with a redirect (pages) or a 403 (API)
\* and calls no admin_services operation and writes no audit entry; with no
\* secret configured every request is refused; and every audit entry that
\* names an admin names an e-mail of ADMIN_EMAILS as it was then.
C19_NoAdminOperationUnauthorised ==
    /\ (ev.op = "admin_request" /\ ~Authorised(Req)) =>
          /\ ev.ret = (IF Req.route \in PageRoutes THEN "302" ELSE "403")
          /\ ev.results = << >>
    /\ (ev.op = "admin_request" /\ admin.secret = "") => ev.ret \in { "302", "403" }
    /\ (ev.op = "admin_request" /\ ev.ret \in { "302", "403" }) =>
          /\ ev.results = << >>
          /\ \A out \in { handle(Req, admin, now) } : out.audit = admin.audit
    /\ \A i \in DOMAIN admin.audit :
          admin.audit[i].admin \in { "unknown", "ada@hr.io" }

\* C19 witness: a request to clear the cache with a token signed with the
\* configured secret, not expired, of a user who is no admin, has just been
\* answered 403 with no operation called, the audit log holding the entries
\* of an admin's earlier request.
C19_Witness ==
    /\ ev.op = "admin_request"
    /\ Req.route = "api_clear_cache"
    /\ Req.cookie # Null
    /\ admin.secret # ""
    /\ Val(Req.cookie).key = admin.secret
    /\ Val(Req.cookie).payload.email = "tom@hr.io"
    /\ ~Authorised(Req)
    /\ ev.ret = "403"
    /\ ev.results = << >>
    /\ Len(admin.audit) = 2
    /\ admin.audit[1].admin = "ada@hr.io"

(* ------------------ ranking: C21, C22, C23, C25 ------------------------ *)
(* One retriever builds its index and is searched with a top_k of the       *)
(* caller's choice, by _run and directly, under a confidence threshold of   *)
(* 1.0 or of 1.5.                                                           *)

\* the top_k arguments of search: 0 is None, the default
TopKs == { 0, 1, 2 }

\* search(query, top_k) on retriever i; asked is the number of candidates
\* the sparse and the dense retriever of the ensemble are set to return
SearchTopK(i, query, top_k, ranking) ==
    /\ retr[i].frame.pc = "idle"
    /\ \E s \in { search(retr[i], query, top_k, search_cache, now, "none", seed[i],
                         ranking) } :
          /\ Cardinality(DOMAIN s.cache) <= MaxCacheEntries
          /\ search_cache' = s.cache
          /\ ev' = [ NoEvent EXCEPT
                       !.op = "search", !.inst = i, !.query = query, !.top_k = top_k,
                       !.results = s.value, !.from_cache = s.from_cache,
                       !.seen = IF Ready(retr[i]) THEN Some(Seen(retr[i])) ELSE Null,
                       !.asked = IF Ready(retr[i]) /\ ~s.from_cache
                                 THEN [ j \in { 1, 2 } |->
                                          Val(retr[i].ensemble_retriever).retrievers[j].k ]
                                 ELSE << >> ]
    /\ UNCHANGED << retr, seed, tool, disk, files, now, threshold, admin >>

RankThresholds == { 60, 90 }

NextRank ==
    \/ BuildIndex(Main, FALSE, "none")
    \/ \E query \in RankQueries \cup { "Payslip" }, top_k \in TopKs, ranking \in Rankings :
           SearchTopK(Main, query, top_k, ranking)
    \/ \E query \in RankQueries \cup { "Payslip" }, ranking \in Rankings :
           Run(Main, query, "none", ranking)

SpecRank == InitWith(ServeConfigs, { 0 }, RankThresholds) /\ [][NextRank]_vars

\* the top_k a search uses: the argument, or the retriever's when it is None
EffectiveTopK(top_k) == IF top_k = 0 THEN Cur.top_k ELSE top_k

\* the chunk ids of a list of results or of candidates, in its order
ResultIds(results) == [ i \in DOMAIN results |-> results[i].chunk_id ]

\* C21: for a search with top_k = k, the chunks returned are the k distinct
\* chunks with the highest fused (ensemble) score, in descending order of
\* fused score: the first k candidates of the ensemble's list (all of them
\* when there are fewer), in the order of that list.
C21_TopKByFusedScore ==
    Ready(Cur) =>
        \A query \in RankQueries \cup { "Payslip" }, top_k \in TopKs, ranking \in Rankings :
           \A s \in { search(Cur, query, top_k, << >>, now, "none", seed[Main], ranking) },
              docs \in { Candidates(ranking) } :
              ResultIds(s.value) = ResultIds(Take(docs, EffectiveTopK(top_k)))

\* C22: whenever two results in the list returned by search have equal
\* scores, the one with the lower chunk_id comes first.
C22_TiesByChunkId ==
    Ready(Cur) =>
        \A query \in RankQueries \cup { "Payslip" }, top_k \in TopKs, ranking \in Rankings :
           \A s \in { search(Cur, query, top_k, << >>, now, "none", seed[Main], ranking) } :
              \A i, j \in DOMAIN s.value :
                 (i < j /\ s.value[i].score = s.value[j].score) =>
                     s.value[i].chunk_id < s.value[j].chunk_id

\* C23: for every search with top_k = k, including values of k passed to
\* search that differ from the retriever's configured top_k, the sparse
\* index and the dense index are each asked for k * 2 candidates before
\* fusion.
C23_AskedTwiceTopK ==
    (ev.op = "search" /\ ev.asked # << >>) =>
        \A j \in DOMAIN ev.asked : ev.asked[j] = EffectiveTopK(ev.top_k) * 2

\* the top_k of the search that has just returned: _run passes 5
TopKOfEvent == IF ev.op = "_run" THEN 5 ELSE EffectiveTopK(ev.top_k)

\* C25: for every query and every top_k >= 1, a non-empty list returned by
\* search, computed or taken from the query cache, is in non-increasing
\* score order, has at most top_k entries, and its first entry has score
\* >= 1.0; hence with a CONFIDENCE_THRESHOLD <= 1.0 the gate in _run never
\* suppresses a non-empty result list.
C25_FirstScoreAtLeastOne ==
    (ev.op \in { "search", "_run" } /\ ev.results # << >>) =>
        /\ \A i, j \in DOMAIN ev.results :
              i < j => ev.results[i].score >= ev.results[j].score
        /\ Len(ev.results) <= TopKOfEvent
        /\ ev.results[1].score >= ScoreScale
        /\ (ev.op = "_run" /\ threshold <= ScoreScale) =>
              /\ ev.ret # NO_ACTION_FOUND
              /\ ev.ret = FormatOutput(ev.results, tool[Main]._last_sources)

\* C25 witness: under a threshold of 1.0, _run has just returned the two
\* results of a search whose best score is exactly 1.0, the second candidate
\* of the ensemble having been given more than the first.
C25_Witness ==
    /\ ev.op = "_run"
    /\ threshold = ScoreScale
    /\ Len(ev.results) = 2
    /\ ev.results[1].score = ScoreScale
    /\ ev.results[1].chunk_id = 1
    /\ ev.results[2].score < ScoreScale
    /\ ev.ret # NO_ACTION_FOUND

(* ------------------ retrieval failure and rebuild: C24, C26 ------------ *)
\* search(query) on Main as _run calls it, computed on an empty query cache
Fresh(query, ranking) ==
    search(Cur, query, 5, << >>, now, "none", seed[Main], ranking)

\* C24: if the ensemble retriever fails during a search on a READY
\* retriever, search returns an empty list instead of raising, writes
\* nothing to the query cache for that key, and leaves the indexes, the
\* chunk list and the fingerprint unchanged, so a later search of the same
\* query is computed afresh.  Stated of the _run whose search has just
\* failed so, and of the search that would follow it.
C24_RetrievalFailureIsMiss ==
    (ev.op = "_run" /\ ev.fault = "invoke" /\ ev.seen # Null /\ ~ev.from_cache) =>
        /\ ev.ret = NO_ACTION_FOUND
        /\ ev.results = << >>
        /\ Seen(Cur) = Val(ev.seen)
        /\ CacheGet(search_cache, KeyOf(ev.query), now) = << >>
        /\ \A ranking \in Rankings :
              \A later \in { FirstSearch(ev.query, "none", ranking) } :
                 /\ ~later.from_cache
                 /\ later.value # << >>
                 /\ later.value = Fresh(ev.query, ranking).value

\* C24 witness: the retrieval of a _run on a READY retriever has just
\* failed, an hour after a search had stored results for the same query.
C24_Witness ==
    /\ ev.op = "_run"
    /\ ev.fault = "invoke"
    /\ ev.seen # Null
    /\ ~ev.from_cache
    /\ Ready(Cur)
    /\ KeyOf(ev.query) \in DOMAIN search_cache
    /\ now = CACHE_EXPIRE_HOURS

\* build_index(force_rebuild = True) on Main has just completed a rebuild
JustForceRebuilt ==
    /\ ev.op = "build_index"
    /\ ev.inst = Main
    /\ ev.force
    /\ ev.outcome = "rebuilt"

\* C26: after build_index(force_rebuild=True) completes successfully, every
\* later search returns results computed from the newly built index: no
\* result list computed against the index that was replaced is returned,
\* also when the fingerprint is the same before and after the rebuild and
\* the query was cached before the rebuild.  Stated of the search that
\* follows the rebuild.
C26_SearchAfterForcedRebuild ==
    (JustForceRebuilt /\ Ready(Cur)) =>
        \A query \in Queries, ranking \in Rankings :
           \A s \in { FirstSearch(query, "none", ranking) } :
              /\ ~s.raised
              /\ \A i \in DOMAIN s.value :
                    \E j \in DOMAIN Cur.documents :
                       /\ Cur.documents[j].page_content = s.value[i].content
                       /\ Cur.documents[j].chunk_id = s.value[i].chunk_id

(* ----------------------- the cache key: C27 ---------------------------- *)
(* Two processes share the query cache.  Each constructs its retriever with *)
(* the cache directory, builds or loads its index and searches with a top_k *)
(* of the caller's choice; the second starts again with the chunk overlap   *)
(* of the code it then runs.                                                *)

\* the top_k arguments: 1 and 11
KeyTopKs == { 1, 11 }
KeyConfigs == { c \in Configs : Mode(c.args) = "cache_dir" }
KeyQueries == ColonQueries

NextKey ==
    \/ \E c \in KeyConfigs : Construct(Peer, c)
    \/ \E i \in Inst : BuildIndex(i, FALSE, "none")
    \/ \E i \in Inst, query \in KeyQueries, top_k \in KeyTopKs :
           SearchTopK(i, query, top_k, "fwd")

InitKey == InitWith(KeyConfigs, { 0 }, { 18 }) /\ files = << 1, 1, 0 >>

SpecKey == InitKey /\ [][NextKey]_vars

\* the (fingerprint, expanded query, top_k) of search(query, top_k) on r
KeyTriple(r, query, top_k, sd) ==
    << r.index_hash, _expand_query(query, sd), IF top_k = 0 THEN r.top_k ELSE top_k >>

\* the triples of the searches of the model
KeyTriples ==
    { KeyTriple(retr[i], query, top_k, seed[i]) :
        i \in Inst, query \in KeyQueries, top_k \in KeyTopKs }

\* C27: the query cache never crosses keys: a result list that search
\* returns from the cache was stored by a search with the same fingerprint,
\* the same expanded query string and the same top_k; no two distinct
\* (fingerprint, expanded query, top_k) triples map to the same cache key
\* string.  Stated of every search of a READY retriever on an empty cache
\* and of every search that follows it, by the same or by the other
\* retriever.
C27_CacheNeverCrossesKeys ==
    /\ \A t1, t2 \in KeyTriples :
          cache_key(t1[1], t1[2], t1[3]) = cache_key(t2[1], t2[2], t2[3]) => t1 = t2
    /\ \A i \in { k \in Inst : Ready(retr[k]) }, q1 \in KeyQueries, k1 \in KeyTopKs :
          \A first \in { search(retr[i], q1, k1, << >>, now, "none", seed[i], "fwd") } :
             \A j \in { k \in Inst : Ready(retr[k]) }, q2 \in KeyQueries, k2 \in KeyTopKs :
                \A second \in { search(retr[j], q2, k2, first.cache, now, "none",
                                       seed[j], "rev") } :
                   second.from_cache =>
                      /\ KeyTriple(retr[j], q2, k2, seed[j])
                           = KeyTriple(retr[i], q1, k1, seed[i])
                      /\ second.value = first.value

\* C27 witness: the two retrievers are READY with different fingerprints,
\* and a search of "tds:1" with top_k = 1 has just been answered from the
\* query cache, which holds no entry for "tds" with top_k = 11.
C27_Witness ==
    /\ Ready(retr[Main])
    /\ Ready(retr[Peer])
    /\ retr[Main].index_hash # retr[Peer].index_hash
    /\ ev.op = "search"
    /\ ev.from_cache
    /\ ev.query = "tds:1"
    /\ ev.top_k = 1
    /\ cache_key(retr[ev.inst].index_hash, "tds", 11) \notin DOMAIN search_cache

(* --------------------- loading without rebuilding: C28 ----------------- *)
\* the index directory holds both artifacts, the sparse-index file is whole,
\* its stored fingerprint is the current one and its age is at most 24 hours
FreshIndexOnDisk ==
    /\ disk.vector # Null
    /\ disk.pkl # Null
    /\ ~Val(disk.pkl).partial
    /\ Val(disk.pkl).index_hash = CurrentHash
    /\ now - Val(disk.pkl).mtime <= TTL_HOURS

\* C28: when a persisted index exists whose stored fingerprint equals the
\* current one and whose age is at most 24 hours, build_index(force_rebuild=
\* False) installs it and returns without loading the master document,
\* computing embeddings or writing to disk; the persisted artifacts and
\* their modification times are left unchanged, so the 24-hour age keeps
\* counting from the original build and is not renewed by loads.  Stated of
\* a call in which reading the artifacts does not fail.
C28_LoadLeavesDiskAlone ==
    FreshIndexOnDisk =>
        \A w \in { build_index(Cur, disk, FALSE, "none", files, now) } :
           /\ w.r.frame.outcome = "loaded"
           /\ w.r.documents = Val(disk.pkl).documents
           /\ w.r.bm25 = Val(disk.pkl).bm25
           /\ w.r.vector_store = disk.vector
           /\ w.r.index_hash = CurrentHash
           /\ Ready(w.r)
           /\ w.r.frame.master = NoFrame.master
           /\ w.r.frame.chunks = NoFrame.chunks
           /\ ~w.r.frame.wrote
           /\ w.d = disk

\* C28 witness: build_index(False) has just installed an index that was
\* written exactly 24 hours before, after the master document was rewritten;
\* the sparse-index file still has the modification time of that build.
C28_Witness ==
    /\ JustBuilt
    /\ ev.outcome = "loaded"
    /\ FreshIndexOnDisk
    /\ now - Val(disk.pkl).mtime = TTL_HOURS
    /\ Cur.documents = Val(disk.pkl).documents
    /\ Val(Cur.vector_store).master # << 1, files[1] >>

(* --------------------------- last_sources: C29 ------------------------- *)
\* the source names of a list of results
SourceNames(results) == { results[i].source : i \in DOMAIN results }

\* _run returned the text of an error
ReturnedError ==
    /\ Len(ev.ret) >= Len(ERROR_PREFIX)
    /\ SubSeq(ev.ret, 1, Len(ERROR_PREFIX)) = ERROR_PREFIX

\* C29: after any sequence of _run calls, last_sources() reflects only the
\* most recent call: it is empty if that call returned "NO_ACTION_FOUND" or
\* an error, and otherwise it is exactly the set of distinct source names of
\* the results in that call's output; sources of an earlier query are never
\* reported for a later one.
C29_LastSourcesOfLastRun ==
    ev.op = "_run" =>
        \A sources \in { last_sources(tool[Main]) } :
           IF ev.ret = NO_ACTION_FOUND \/ ReturnedError
           THEN sources = << >>
           ELSE /\ { sources[i] : i \in DOMAIN sources } = SourceNames(ev.results)
                /\ Len(sources) = Cardinality(SourceNames(ev.results))
                /\ ev.ret = FormatOutput(ev.results, sources)

\* C29 witness: under the default threshold, a _run that found two results
\* of one source and reported it has been followed by a _run whose search
\* raised: it returned an error and last_sources() is empty.
C29_Witness ==
    /\ ev.op = "_run"
    /\ threshold = 18
    /\ ReturnedError
    /\ last_sources(tool[Main]) = << >>
    /\ \E key \in DOMAIN search_cache : Len(search_cache[key].value) = 2

(* ------------------------ the response cache: C30 ---------------------- *)
(* The assistant writes responses and its hit statistics into the response  *)
(* cache directory; an admin looks at the statistics and clears the cache.  *)

\* the files of the response cache directory: two cached responses, the
\* statistics file and a file that is not JSON
ResponseFiles == { "q1.json", "q2.json", CACHE_STATS_FILE, "q1.json.tmp" }

\* a file is written into the response cache directory
WriteCacheFile(f) ==
    /\ f \notin admin.cache_files
    /\ admin' = [ admin EXCEPT !.cache_files = admin.cache_files \cup { f } ]
    /\ ev' = NoEvent
    /\ UNCHANGED << retr, seed, tool, disk, search_cache, files, now, threshold >>

\* the requests that look at or clear the response cache, with no token or
\* with an admin's
CacheRequests ==
    { req \in Requests :
        /\ req.route \in { "api_clear_cache", "api_cache_stats_partial" }
        /\ req.cookie \in { Null,
                            Some([ alg |-> "HS256", key |-> "s3cret",
                                   exp |-> Some(MaxNow + 1), payload |-> AdminPayload ]) } }

NextResponseCache ==
    \/ \E f \in ResponseFiles : WriteCacheFile(f)
    \/ \E req \in CacheRequests : Request(req)
    \/ Deploy("s3cret", << "ada@hr.io" >>)

SpecResponseCache == InitAdmin /\ [][NextResponseCache]_vars

\* C30: AdminServices.clear_cache removes every cached response and reports
\* the number removed: the entries_cleared value it returns equals the
\* total_entries that get_cache_stats reported immediately before the call,
\* and get_cache_stats reports total_entries = 0 immediately after it.
C30_ClearCacheReportsEntries ==
    \A cleared \in { clear_cache(admin.cache_files) } :
       /\ cleared.entries_cleared = get_cache_stats(admin.cache_files).total_entries
       /\ get_cache_stats(cleared.dir).total_entries = 0
====
